---- MODULE Spec2Model ----
(***************************************************************************)
(* Kepler orbit evaluation of angular_momentum_conservation_animation.py:  *)
(* the Newton solver for Kepler's equation, the position and true-anomaly  *)
(* functions built on it, and the frame handler that calls them.           *)
(*                                                                         *)
(* Numbers.  The script computes in IEEE doubles.  Here a real v is the    *)
(* integer round(v * Scale): a uniform grid of step 1/Scale, with every    *)
(* product, quotient, sine and cosine rounded to the grid, as a double     *)
(* operation rounds to the nearest double.  The grid step (1e-7) is larger *)
(* than the solver's tolerance (1e-8), which is the situation of doubles   *)
(* of magnitude 2^26 and above (spacing >= 1.5e-8): there, as here, the    *)
(* convergence test |E_new - E| < tol is met only by E_new = E.            *)
(***************************************************************************)
EXTENDS Integers, Sequences, FiniteSets

\* ------------------------------------------------------------ arithmetic

\* The grid: Scale units make 1.0.
Scale == 10^7

Abs(v) == IF v < 0 THEN -v ELSE v

Sign(v) == IF v < 0 THEN -1 ELSE 1

\* p * q / Scale for p, q >= 0, rounded half up; the product is formed in
\* base-10^4 limbs so that no intermediate exceeds 32 bits.
MulAbs(p, q) ==
  LET R  == 10000
      a0 == p % R
      a1 == (p \div R) % R
      a2 == p \div (R * R)
      b0 == q % R
      b1 == (q \div R) % R
      b2 == q \div (R * R)
      c0 == a0 * b0
      c1 == a0 * b1 + a1 * b0
      c2 == a0 * b2 + a1 * b1 + a2 * b0
      c3 == a1 * b2 + a2 * b1
      c4 == a2 * b2
      d0 == c0 % R
      k1 == c1 + (c0 \div R)
      d1 == k1 % R
      k2 == c2 + (k1 \div R)
      d2 == k2 % R
      k3 == c3 + (k2 \div R) + c4 * R
      low == d1 * R + d0
  IN  k3 * 100000 + d2 * 10 + ((low + (Scale \div 2)) \div Scale)

\* The float product x * y.
Mul(p, q) == Sign(p) * Sign(q) * MulAbs(Abs(p), Abs(q))

RECURSIVE DivDigits(_, _, _, _)
\* Long division: n more decimal digits of r / d appended to the quotient q.
DivDigits(q, r, d, n) ==
  IF n = 0 THEN <<q, r>>
  ELSE DivDigits(q * 10 + ((r * 10) \div d), (r * 10) % d, d, n - 1)

\* p * Scale / q for p >= 0, q > 0, rounded half up.
DivAbs(p, q) ==
  LET qr == DivDigits(p \div q, p % q, q, 7)
  IN  qr[1] + (IF 2 * qr[2] >= q THEN 1 ELSE 0)

\* The float quotient x / y (y # 0).
Div(p, q) == Sign(p) * Sign(q) * DivAbs(Abs(p), Abs(q))

\* v / n for an integer n > 0, rounded to the grid.
DivInt(v, n) ==
  Sign(v) * ((Abs(v) \div n) + (IF 2 * (Abs(v) % n) >= n THEN 1 ELSE 0))

\* np.pi on the grid.
PiFix == 31415927

TwoPi == 2 * PiFix

HalfPi == PiFix \div 2

RECURSIVE Horner(_, _, _, _)
\* 1 - x2/ds[i] * (1 - x2/ds[i+1] * (...)): the Taylor series of sin and cos.
Horner(x2, ds, i, p) ==
  IF i = 0 THEN p
  ELSE Horner(x2, ds, i - 1, Scale - DivInt(Mul(x2, p), ds[i]))

\* sin(x) for |x| <= pi/2.
SinSmall(x) == Mul(x, Horner(Mul(x, x), <<6, 20, 42, 72, 110, 156, 210>>, 7, Scale))

\* cos(x) for |x| <= pi/2.
CosSmall(x) == Horner(Mul(x, x), <<2, 12, 30, 56, 90, 132, 182>>, 7, Scale)

\* x reduced to (-pi, pi].
ReduceAngle(x) ==
  LET r == x % TwoPi
  IN  IF r > PiFix THEN r - TwoPi ELSE r

\* np.sin
Sin(x) ==
  LET r == ReduceAngle(x)
  IN  IF r > HalfPi THEN SinSmall(PiFix - r)
      ELSE IF r < -HalfPi THEN -SinSmall(PiFix + r)
      ELSE SinSmall(r)

\* np.cos
Cos(x) ==
  LET r == ReduceAngle(x)
  IN  IF r > HalfPi THEN -CosSmall(PiFix - r)
      ELSE IF r < -HalfPi THEN -CosSmall(PiFix + r)
      ELSE CosSmall(r)

RECURSIVE SqrtBisect(_, _, _)
\* The largest r in [lo, hi) with r * r <= v.
SqrtBisect(v, lo, hi) ==
  IF hi - lo <= 1 THEN lo
  ELSE LET mid == (lo + hi) \div 2
       IN  IF Mul(mid, mid) <= v THEN SqrtBisect(v, mid, hi)
           ELSE SqrtBisect(v, lo, mid)

\* np.sqrt for 0 <= v <= 4.
Sqrt(v) == SqrtBisect(v, 0, 2 * Scale + 1)

\* atan(2^-i) on the grid, i = 0 .. 23.
AtanTable ==
  <<7853982, 4636476, 2449787, 1243550, 624188, 312398, 156237, 78123,
    39062, 19531, 9766, 4883, 2441, 1221, 610, 305,
    153, 76, 38, 19, 10, 5, 2, 1>>

RECURSIVE Cordic(_, _, _, _)
\* CORDIC vectoring: the angle of (vx, vy), vx >= 0, accumulated in z.
Cordic(vx, vy, z, i) ==
  IF i > Len(AtanTable) THEN z
  ELSE LET sh == 2^(i - 1)
       IN  IF vy > 0
           THEN Cordic(vx + (vy \div sh), vy - (vx \div sh), z + AtanTable[i], i + 1)
           ELSE Cordic(vx - (vy \div sh), vy + (vx \div sh), z - AtanTable[i], i + 1)

\* np.arctan2(vy, vx) for |vx|, |vy| <= 2.
Arctan2(vy, vx) ==
  IF vx = 0 /\ vy = 0 THEN 0
  ELSE IF vy = 0 THEN (IF vx > 0 THEN 0 ELSE PiFix)
  ELSE IF vx >= 0 THEN Cordic(vx * 32, vy * 32, 0, 1)
  ELSE IF vy > 0 THEN PiFix + Cordic(-vx * 32, -vy * 32, 0, 1)
  ELSE Cordic(-vx * 32, -vy * 32, 0, 1) - PiFix

\* ------------------------------------- arithmetic of the mechanics scripts

\* The free-fall and collision scripts hold energies above 214 (v**2 is
\* 215.6 for the 11 m ball), past what the 1e-7 grid can hold in 32 bits; their
\* reals are on a grid of step 1e-6: Unit units make 1.0.
Unit == 10^6

RECURSIVE MulDivBits(_, _, _, _, _, _)
\* <<quotient, remainder>> of r0 * k / d for 0 <= r0 < d < 2^30: k is read
\* bit by bit from weight w down (double, then add r0 for a set bit), so that
\* no intermediate exceeds 32 bits.
MulDivBits(q, r, r0, k, d, w) ==
  IF w = 0 THEN <<q, r>>
  ELSE LET r2  == (2 * r) % d
           q2  == 2 * q + ((2 * r) \div d)
           bit == (k \div w) % 2
       IN  MulDivBits(IF bit = 1 THEN q2 + ((r2 + r0) \div d) ELSE q2,
                      IF bit = 1 THEN (r2 + r0) % d ELSE r2,
                      r0, k, d, w \div 2)

\* p * k / d for p, k >= 0 and d > 0, rounded half up: directly when
\* p * k fits in 32 bits, bit by bit otherwise.
MulDivRound(p, k, d) ==
  IF k = 0 \/ p <= (2^30 + (2^30 - 1)) \div k
  THEN DivInt(p * k, d)
  ELSE LET s == MulDivBits(0, 0, p % d, k, d, 2^30)
       IN  (p \div d) * k + s[1] + (IF 2 * s[2] >= d THEN 1 ELSE 0)

\* p * q / Unit for p, q >= 0, rounded half up; the product is formed in
\* base-10^4 limbs, as in MulAbs.
FMulAbs(p, q) ==
  LET R  == 10000
      a0 == p % R
      a1 == (p \div R) % R
      a2 == p \div (R * R)
      b0 == q % R
      b1 == (q \div R) % R
      b2 == q \div (R * R)
      c0 == a0 * b0
      c1 == a0 * b1 + a1 * b0
      c2 == a0 * b2 + a1 * b1 + a2 * b0
      c3 == a1 * b2 + a2 * b1
      c4 == a2 * b2
      d0 == c0 % R
      k1 == c1 + (c0 \div R)
      d1 == k1 % R
      k2 == c2 + (k1 \div R)
      d2 == k2 % R
      k3 == c3 + (k2 \div R) + c4 * R
      low == d1 * R + d0
  IN  k3 * Unit + d2 * 100 + ((low + (Unit \div 2)) \div Unit)

\* The float product x * y on the 1e-6 grid.
FMul(p, q) == Sign(p) * Sign(q) * FMulAbs(Abs(p), Abs(q))

\* The float quotient x / y (y # 0) on the 1e-6 grid.
FDiv(p, q) == Sign(p) * Sign(q) * MulDivRound(Abs(p), Unit, Abs(q))

RECURSIVE FSqrtBisect(_, _, _)
\* The largest r in [lo, hi) with r * r <= v, on the 1e-6 grid.
FSqrtBisect(v, lo, hi) ==
  IF hi - lo <= 1 THEN lo
  ELSE LET mid == (lo + hi) \div 2
       IN  IF FMul(mid, mid) <= v THEN FSqrtBisect(v, mid, hi)
           ELSE FSqrtBisect(v, lo, mid)

\* np.sqrt for 0 <= v <= 900, rounded down to the 1e-6 grid.
FSqrt(v) == FSqrtBisect(v, 0, 30 * Unit + 1)

\* int(v) for v >= 0 on the 1e-6 grid.
FInt(v) == v \div Unit

\* np.linspace(start, stop, num)[i] on the 1e-6 grid: start + i * step with
\* the last value stop itself; a single value is start.
np_linspace(start, stop, num, i) ==
  IF num > 1 /\ i = num - 1 THEN stop
  ELSE IF num = 1 THEN start
  ELSE start + MulDivRound(stop - start, i, num - 1)

\* ----------------------------------------------------------------- state

VARIABLES
  e, a, b, c, T,          \* orbit parameters (module level, lines 16-22)
  earth,                  \* earth.center
  current_sector,         \* the growing sector polygon, or None
  current_start_time,     \* the second the growing sector started at
  sector_patches,         \* the completed sector polygons
  frame,                  \* the frame FuncAnimation renders (-1: module load)
  pc,                     \* the control point
  fn,                     \* the function that called the solver
  ret,                    \* where the running function returns to
  t,                      \* the argument of get_position/get_true_anomaly
  M,                      \* the mean anomaly
  E, E_new, it,           \* the solver's locals and its loop counter
  Esol,                   \* the solver's return value
  x, y, theta,            \* the functions' results
  at,                     \* animate's t
  poly,                   \* create_sector_polygon's locals
  ht,                     \* the time the calls are evaluated at
  pos1, th1, pos2, th2, pos3, th3,   \* the results of the six calls
  iterates,               \* history: E_0, E_1, ... of the running solver call
  converged,              \* history: the solver returned through its test
  calls                   \* history: <<frame, t>> of every solver call

params == <<e, a, b, c, T>>

artists == <<earth, current_sector, current_start_time, sector_patches>>

solver == <<fn, ret, t, M, E, E_new, it, Esol, x, y, theta>>

results == <<ht, pos1, th1, pos2, th2, pos3, th3>>

history == <<iterates, converged, calls>>

\* The orbit script's state, frame and pc aside.
kepler == <<params, artists, solver, at, poly, results, history>>

\* momentum_conservation_animation.py
VARIABLES
  mc_t,                   \* animate's t
  x_A, x_B, v_A, v_B,     \* what get_positions_and_velocities returns
  particle_A, particle_B, \* .center
  label_A, label_B,       \* position
  arrow_A, arrow_B,       \* [xy, xyann]
  momentum_bar_A, momentum_bar_B,   \* [x, width]
  momentum_text           \* the two numbers shown, in tenths

momentum ==
  <<mc_t, x_A, x_B, v_A, v_B, particle_A, particle_B, label_A, label_B,
    arrow_A, arrow_B, momentum_bar_A, momentum_bar_B, momentum_text>>

\* free_fall_energy_animation.py
VARIABLES
  fe_t_fall,              \* t_fall
  fe_t, fe_h, fe_v,       \* animate's t, h, v
  U, K,                   \* animate's energies
  particle,               \* .center
  potential_bar, kinetic_bar        \* [y, height]

energy == <<fe_t_fall, fe_t, fe_h, fe_v, U, K, particle, potential_bar, kinetic_bar>>

\* free_fall_four_heights_animation.py
VARIABLES
  fall_times,             \* fall_times[i], i = 1 .. n_balls
  fh_t,                   \* animate's t
  fh_particles            \* particles[i].center

four_heights == <<fall_times, fh_t, fh_particles>>

\* free_fall_time_symmetry_animation.py
VARIABLES
  ts_t_fall,              \* t_fall
  ts_t,                   \* animate's t
  particle1, particle2,   \* [center, alpha]
  line1, line2,           \* the plotted <<tau, L>> points
  point1, point2,         \* the marker, <<>> or one <<tau, L>> point
  result_text             \* the text shown

time_symmetry ==
  <<ts_t_fall, ts_t, particle1, particle2, line1, line2, point1, point2, result_text>>

\* free_fall_two_heights_animation.py
VARIABLES
  t_fall_left, t_fall_right,
  th_t,                   \* animate's t
  h_left, v_left, U_left, K_left,
  h_right, v_right, U_right, K_right,
  particle_left, particle_right,                \* .center
  potential_bar_left, kinetic_bar_left,         \* [y, height]
  potential_bar_right, kinetic_bar_right        \* [y, height]

two_heights ==
  <<t_fall_left, t_fall_right, th_t, h_left, v_left, U_left, K_left,
    h_right, v_right, U_right, K_right, particle_left, particle_right,
    potential_bar_left, kinetic_bar_left, potential_bar_right, kinetic_bar_right>>

\* free_fall_four_horizontal.py
VARIABLES
  f4_t_fall,              \* t_fall
  f4_t, f4_h,             \* animate's t and h
  f4_particles            \* particles[i].center

four_horizontal == <<f4_t_fall, f4_t, f4_h, f4_particles>>


\* equipotential_horizontal_motion.py
VARIABLES
  eq_potential_lines,     \* potential_lines[i]'s data: <<xs, ys>>
  line_labels,            \* line_labels[i]'s alpha
  ball,                   \* the ball: [center, alpha]
  title_label,            \* title_label's alpha
  explanation_text        \* explanation_text's text

equipotential ==
  <<eq_potential_lines, line_labels, ball, title_label, explanation_text>>


\* gravity_potential_animation.py
VARIABLES
  gp_potential_lines,     \* potential_lines[i]'s data: <<xs, ys>>
  gradient_arrows,        \* gradient_arrows[i]: [posA, posB, alpha]
  energy_label,           \* energy_label's text
  height_label,           \* height_label's alpha
  height_indicator        \* height_indicator's visibility

gravity_potential ==
  <<gp_potential_lines, gradient_arrows, energy_label, height_label,
    height_indicator>>

\* The state of the scripts other than the orbit script.
scripts == <<momentum, energy, four_heights, time_symmetry, two_heights, four_horizontal, equipotential, gravity_potential>>

\* What the steps of each script leave alone.
rest_momentum ==
  <<kepler, energy, four_heights, time_symmetry, two_heights, four_horizontal, equipotential, gravity_potential>>

rest_energy ==
  <<kepler, momentum, four_heights, time_symmetry, two_heights, four_horizontal, equipotential, gravity_potential>>

rest_four_heights ==
  <<kepler, momentum, energy, time_symmetry, two_heights, four_horizontal, equipotential, gravity_potential>>

rest_time_symmetry ==
  <<kepler, momentum, energy, four_heights, two_heights, four_horizontal, equipotential, gravity_potential>>

rest_two_heights ==
  <<kepler, momentum, energy, four_heights, time_symmetry, four_horizontal, equipotential, gravity_potential>>

rest_four_horizontal ==
  <<kepler, momentum, energy, four_heights, time_symmetry, two_heights, equipotential, gravity_potential>>

rest_equipotential ==
  <<kepler, momentum, energy, four_heights, time_symmetry, two_heights, four_horizontal, gravity_potential>>

rest_gravity_potential ==
  <<kepler, momentum, energy, four_heights, time_symmetry, two_heights, four_horizontal, equipotential>>

vars == <<params, artists, frame, pc, solver, at, poly, results, history, scripts>>

None == "None"

\* ---------------------------------------------------------------- bounds

\* The harness evaluates the functions at ht = j * T / TimeSteps, j = 0 .. TimeSteps.
TimeSteps == 8

\* Frames per second of the animation run (60 in the script).
fps == 2

\* Sample points of a sector polygon (50 in the script).
n_points == 3

\* The eccentricities, semi-major axes and periods the harness draws from;
\* each set holds the script's own value (0.7, 4.0, 8.0).
EccSet == {0, (7 * Scale) \div 10, (95 * Scale) \div 100, (99 * Scale) \div 100}

AxisSet == {Scale, 4 * Scale}

PeriodSet == {2 * Scale, 8 * Scale}

\* ------------------------------ momentum_conservation_animation.py

\* m = 1.0
mc_m == Unit

\* v_A_initial = 3.0
v_A_initial == 3 * Unit

\* v_B_initial = 0.0
v_B_initial == 0 * Unit

v_A_final == v_B_initial

v_B_final == v_A_initial

\* x_A_initial = 2.0
x_A_initial == 2 * Unit

\* x_B_initial = 8.0
x_B_initial == 8 * Unit

t_collision == FDiv(x_B_initial - x_A_initial, v_A_initial - v_B_initial)

x_collision == x_A_initial + FMul(v_A_initial, t_collision)

mc_fps == 60

\* total_time = t_collision * 2.5
total_time == FMul(t_collision, (25 * Unit) \div 10)

\* dt = 1.0 / fps; the double lies below 1/60, and so does the grid value.
mc_dt == Unit \div mc_fps

\* n_frames = int(total_time / dt) + 1
mc_n_frames == FInt(FDiv(total_time, mc_dt)) + 1

\* t_array = np.linspace(0, total_time, n_frames)
mc_t_array(i) == np_linspace(0, total_time, mc_n_frames, i)

p_total == FMul(mc_m, v_A_initial) + FMul(mc_m, v_B_initial)

\* The y coordinate of both bodies.
mc_track_y == 2 * Unit

\* arrow_scale = 0.3
arrow_scale == (3 * Unit) \div 10

\* bar_half_width = 4.0
bar_half_width == 4 * Unit

\* bar_center_x = 5.0
bar_center_x == 5 * Unit

\* p_max = abs(m * v_A_initial) * 1.2
p_max == FMul(Abs(FMul(mc_m, v_A_initial)), (12 * Unit) \div 10)

p_total_width == FMul(FDiv(p_total, p_max), bar_half_width)

\* f'{p:.1f}': p in tenths, rounded.
OneDecimal(v) == DivInt(v, Unit \div 10)

\* The artists as the module creates them (lines 62-135).
MomentumLoaded ==
  /\ mc_t = 0
  /\ x_A = 0 /\ x_B = 0 /\ v_A = 0 /\ v_B = 0
  /\ particle_A = <<x_A_initial, mc_track_y>>
  /\ particle_B = <<x_B_initial, mc_track_y>>
  /\ label_A = <<x_A_initial, mc_track_y>>
  /\ label_B = <<x_B_initial, mc_track_y>>
  /\ arrow_A = [xy |-> <<x_A_initial + FMul(v_A_initial, arrow_scale), mc_track_y>>,
                xyann |-> <<x_A_initial, mc_track_y>>]
  /\ arrow_B = [xy |-> <<x_B_initial + FMul(v_B_initial, arrow_scale), mc_track_y>>,
                xyann |-> <<x_B_initial, mc_track_y>>]
  /\ momentum_bar_A = [x |-> bar_center_x, width |-> 0]
  /\ momentum_bar_B = [x |-> bar_center_x, width |-> 0]
  /\ momentum_text = <<>>

\* init(): the artists are returned as they are; frame 0 follows.
mc_init ==
  /\ pc = "mc_init"
  /\ frame' = 0
  /\ pc' = "mc_idle"
  /\ UNCHANGED <<momentum, rest_momentum>>

\* animate(frame): t = t_array[frame]; get_positions_and_velocities(t) is called.
mc_animate ==
  /\ pc = "mc_idle"
  /\ frame < mc_n_frames
  /\ mc_t' = mc_t_array(frame)
  /\ pc' = "mc_call"
  /\ UNCHANGED <<x_A, x_B, v_A, v_B, particle_A, particle_B, label_A, label_B,
                 arrow_A, arrow_B, momentum_bar_A, momentum_bar_B, momentum_text,
                 frame, rest_momentum>>

\* Faulty variant of get_positions_and_velocities_after: after the collision
\* both bodies move with the velocity of A.
get_positions_and_velocities_stuck ==
  /\ pc = "mc_call"
  /\ ~(mc_t < t_collision)
  /\ x_A' = x_collision + FMul(v_B_final, mc_t - t_collision)
  /\ x_B' = x_collision + FMul(v_B_final, mc_t - t_collision)
  /\ v_A' = v_B_final
  /\ v_B' = v_B_final
  /\ pc' = "mc_update"
  /\ UNCHANGED <<mc_t, particle_A, particle_B, label_A, label_B, arrow_A, arrow_B,
                 momentum_bar_A, momentum_bar_B, momentum_text, frame, rest_momentum>>

\* Faulty variant of get_positions_and_velocities_before: B already moves
\* with the velocity it has after the collision.
get_positions_and_velocities_early ==
  /\ pc = "mc_call"
  /\ mc_t < t_collision
  /\ x_A' = x_A_initial + FMul(v_A_initial, mc_t)
  /\ x_B' = x_B_initial + FMul(v_B_final, mc_t)
  /\ v_A' = v_A_initial
  /\ v_B' = v_B_final
  /\ pc' = "mc_update"
  /\ UNCHANGED <<mc_t, particle_A, particle_B, label_A, label_B, arrow_A, arrow_B,
                 momentum_bar_A, momentum_bar_B, momentum_text, frame, rest_momentum>>

\* get_positions_and_velocities(t), t < t_collision
get_positions_and_velocities_before ==
  /\ pc = "mc_call"
  /\ mc_t < t_collision
  /\ x_A' = x_A_initial + FMul(v_A_initial, mc_t)
  /\ x_B' = x_B_initial + FMul(v_B_initial, mc_t)
  /\ v_A' = v_A_initial
  /\ v_B' = v_B_initial
  /\ pc' = "mc_update"
  /\ UNCHANGED <<mc_t, particle_A, particle_B, label_A, label_B, arrow_A, arrow_B,
                 momentum_bar_A, momentum_bar_B, momentum_text, frame, rest_momentum>>

\* get_positions_and_velocities(t), t >= t_collision: dt_after = t - t_collision
get_positions_and_velocities_after ==
  /\ pc = "mc_call"
  /\ ~(mc_t < t_collision)
  /\ x_A' = x_collision + FMul(v_A_final, mc_t - t_collision)
  /\ x_B' = x_collision + FMul(v_B_final, mc_t - t_collision)
  /\ v_A' = v_A_final
  /\ v_B' = v_B_final
  /\ pc' = "mc_update"
  /\ UNCHANGED <<mc_t, particle_A, particle_B, label_A, label_B, arrow_A, arrow_B,
                 momentum_bar_A, momentum_bar_B, momentum_text, frame, rest_momentum>>

\* p_A = m * v_A
p_A == FMul(mc_m, v_A)

\* p_B = m * v_B
p_B == FMul(mc_m, v_B)

\* p_A_width = (p_A / p_max) * bar_half_width
p_A_width == FMul(FDiv(p_A, p_max), bar_half_width)

\* p_B_width = (p_B / p_max) * bar_half_width
p_B_width == FMul(FDiv(p_B, p_max), bar_half_width)

\* base_for_B = bar_center_x + p_A_width, on both branches
base_for_B == bar_center_x + p_A_width

\* The rest of animate: the bodies, labels, arrows, bars and text are set
\* from x_A, x_B, v_A, v_B; the artists are returned and the next frame follows.
mc_animate_update ==
  /\ pc = "mc_update"
  /\ particle_A' = <<x_A, mc_track_y>>
  /\ particle_B' = <<x_B, mc_track_y>>
  /\ label_A' = <<x_A, mc_track_y>>
  /\ label_B' = <<x_B, mc_track_y>>
  /\ arrow_A' = [xy |-> <<x_A + FMul(v_A, arrow_scale), mc_track_y>>,
                 xyann |-> <<x_A, mc_track_y>>]
  /\ arrow_B' = [xy |-> <<x_B + FMul(v_B, arrow_scale), mc_track_y>>,
                 xyann |-> <<x_B, mc_track_y>>]
  /\ momentum_bar_A' =
       IF p_A >= 0 THEN [x |-> bar_center_x, width |-> p_A_width]
       ELSE [x |-> bar_center_x + p_A_width, width |-> -p_A_width]
  /\ momentum_bar_B' =
       IF p_B >= 0 THEN [x |-> base_for_B, width |-> p_B_width]
       ELSE [x |-> base_for_B + p_B_width, width |-> -p_B_width]
  /\ momentum_text' = <<OneDecimal(p_A), OneDecimal(p_B)>>
  /\ frame' = frame + 1
  /\ pc' = "mc_idle"
  /\ UNCHANGED <<mc_t, x_A, x_B, v_A, v_B, rest_momentum>>

NextMomentum ==
  \/ mc_init
  \/ mc_animate
  \/ get_positions_and_velocities_before
  \/ get_positions_and_velocities_after
  \/ mc_animate_update

\* ---------------------------------------- free_fall_energy_animation.py

\* g = 9.8
fe_g == (98 * Unit) \div 10

\* h0 = 10.0
fe_h0 == 10 * Unit

\* m = 1.0
fe_m == Unit

\* 0.5
Half == Unit \div 2

E_total == FMul(FMul(fe_m, fe_g), fe_h0)

fe_fps == 60

\* dt = 1.0 / fps
fe_dt == Unit \div fe_fps

\* n_frames = int(t_fall / dt) + 1
fe_n_frames == FInt(FDiv(fe_t_fall, fe_dt)) + 1

\* t_array = np.linspace(0, t_fall, n_frames)
fe_t_array(i) == np_linspace(0, fe_t_fall, fe_n_frames, i)

\* bar_max_height = 10.0
bar_max_height == 10 * Unit

\* The x coordinate of the falling ball.
fe_particle_x == 2 * Unit

\* The artists as the module creates them (lines 53-69).
EnergyLoaded ==
  /\ fe_t_fall = FSqrt(FDiv(2 * fe_h0, fe_g))
  /\ fe_t = 0 /\ fe_h = 0 /\ fe_v = 0 /\ U = 0 /\ K = 0
  /\ particle = <<fe_particle_x, fe_h0>>
  /\ potential_bar = [y |-> 0, height |-> bar_max_height]
  /\ kinetic_bar = [y |-> bar_max_height, height |-> 0]

\* t_fall = np.sqrt(2 * h0 / g): the root is not a grid value, as it is not a
\* double, and is rounded to one of its two neighbours; the double lies
\* above the root (h < 0 at t_fall), the nearest grid value below it.
fe_load ==
  /\ pc = "fe_load"
  /\ \E up \in {0, 1} : fe_t_fall' = FSqrt(FDiv(2 * fe_h0, fe_g)) + up
  /\ pc' = "fe_init"
  /\ UNCHANGED <<fe_t, fe_h, fe_v, U, K, particle, potential_bar, kinetic_bar,
                 frame, rest_energy>>

\* init(): the artists are returned as they are; frame 0 follows.
fe_init ==
  /\ pc = "fe_init"
  /\ frame' = 0
  /\ pc' = "fe_idle"
  /\ UNCHANGED <<energy, rest_energy>>

\* animate(frame): t = t_array[frame]; h = h0 - 0.5 * g * t**2; v = g * t
fe_animate ==
  /\ pc = "fe_idle"
  /\ frame < fe_n_frames
  /\ fe_t' = fe_t_array(frame)
  /\ fe_h' = fe_h0 - FMul(FMul(Half, fe_g), FMul(fe_t_array(frame), fe_t_array(frame)))
  /\ fe_v' = FMul(fe_g, fe_t_array(frame))
  /\ pc' = "fe_ground"
  /\ UNCHANGED <<fe_t_fall, U, K, particle, potential_bar, kinetic_bar,
                 frame, rest_energy>>

\* Faulty variant of fe_ground_reached: the ball is at rest on the ground.
fe_ground_reached_at_rest ==
  /\ pc = "fe_ground"
  /\ fe_h < 0
  /\ fe_h' = 0
  /\ fe_v' = 0
  /\ pc' = "fe_update"
  /\ UNCHANGED <<fe_t_fall, fe_t, U, K, particle, potential_bar, kinetic_bar,
                 frame, rest_energy>>

\* if h < 0: h = 0; v = np.sqrt(2 * g * h0)
fe_ground_reached ==
  /\ pc = "fe_ground"
  /\ fe_h < 0
  /\ fe_h' = 0
  /\ fe_v' = FSqrt(FMul(FMul(2 * Unit, fe_g), fe_h0))
  /\ pc' = "fe_update"
  /\ UNCHANGED <<fe_t_fall, fe_t, U, K, particle, potential_bar, kinetic_bar,
                 frame, rest_energy>>

\* h >= 0: h and v are kept.
fe_above_ground ==
  /\ pc = "fe_ground"
  /\ ~(fe_h < 0)
  /\ pc' = "fe_update"
  /\ UNCHANGED <<energy, frame, rest_energy>>

\* U = m * g * h
PotentialEnergy(mm, gg, hh) == FMul(FMul(mm, gg), hh)

\* K = 0.5 * m * v**2
KineticEnergy(mm, vv) == FMul(FMul(Half, mm), FMul(vv, vv))

\* U_height = (U / E_total) * bar_max_height, and K_height likewise
BarHeight(en) == FMul(FDiv(en, E_total), bar_max_height)

\* The rest of animate: the energies, the ball and the two bars; the artists
\* are returned and the next frame follows.
fe_animate_update ==
  /\ pc = "fe_update"
  /\ U' = PotentialEnergy(fe_m, fe_g, fe_h)
  /\ K' = KineticEnergy(fe_m, fe_v)
  /\ particle' = <<fe_particle_x, fe_h>>
  /\ potential_bar' = [potential_bar EXCEPT
                         !.height = BarHeight(PotentialEnergy(fe_m, fe_g, fe_h))]
  /\ kinetic_bar' = [y |-> BarHeight(PotentialEnergy(fe_m, fe_g, fe_h)),
                     height |-> BarHeight(KineticEnergy(fe_m, fe_v))]
  /\ frame' = frame + 1
  /\ pc' = "fe_idle"
  /\ UNCHANGED <<fe_t_fall, fe_t, fe_h, fe_v, rest_energy>>

NextEnergy ==
  \/ fe_load
  \/ fe_init
  \/ fe_animate
  \/ fe_ground_reached
  \/ fe_above_ground
  \/ fe_animate_update

\* ----------------------------------- free_fall_four_heights_animation.py

\* g = 9.8
fh_g == (98 * Unit) \div 10

\* heights = [25.0, 30.0, 35.0, 40.0]
heights == <<25 * Unit, 30 * Unit, 35 * Unit, 40 * Unit>>

n_balls == Len(heights)

\* delay = 0.2
fh_delay == (2 * Unit) \div 10

\* end_pause = 1.0
end_pause == Unit

\* Faulty variant of NextStart: the next ball starts delay after the one
\* before it started.
NextStartNoFall(prev_start, prev_fall) == prev_start + fh_delay

\* start_times[i-1] + fall_times[i-1] + delay
NextStart(prev_start, prev_fall) == prev_start + prev_fall + fh_delay

RECURSIVE start_times(_)
\* start_times = [0.0], then one appended for each further ball.
start_times(i) ==
  IF i = 1 THEN 0 ELSE NextStart(start_times(i - 1), fall_times[i - 1])

\* t_max = start_times[-1] + fall_times[-1] + end_pause
fh_t_max == start_times(n_balls) + fall_times[n_balls] + end_pause

fh_fps == 60

\* dt = 1.0 / fps
fh_dt == Unit \div fh_fps

\* n_frames = int(t_max / dt) + 1
fh_n_frames == FInt(FDiv(fh_t_max, fh_dt)) + 1

\* t_array = np.linspace(0, t_max, n_frames)
fh_t_array(i) == np_linspace(0, fh_t_max, fh_n_frames, i)

\* ball_x_positions = -10, 0, 10, 20
ball_x_positions == <<-10 * Unit, 0 * Unit, 10 * Unit, 20 * Unit>>

\* fall_times and the balls as the module creates them (lines 26, 68-72).
FourHeightsLoaded ==
  /\ fall_times = [i \in 1 .. n_balls |-> FSqrt(FDiv(2 * heights[i], fh_g))]
  /\ fh_t = 0
  /\ fh_particles = [i \in 1 .. n_balls |-> <<ball_x_positions[i], heights[i]>>]

\* fall_times = [np.sqrt(2 * h / g) for h in heights]: each root is rounded
\* to one of its two neighbours on the grid.
fh_load ==
  /\ pc = "fh_load"
  /\ \E up \in [1 .. n_balls -> {0, 1}] :
       fall_times' = [i \in 1 .. n_balls |-> FSqrt(FDiv(2 * heights[i], fh_g)) + up[i]]
  /\ pc' = "fh_init"
  /\ UNCHANGED <<fh_t, fh_particles, frame, rest_four_heights>>

\* init(): every ball at its initial height; frame 0 follows.
fh_init ==
  /\ pc = "fh_init"
  /\ fh_particles' = [i \in 1 .. n_balls |-> <<ball_x_positions[i], heights[i]>>]
  /\ frame' = 0
  /\ pc' = "fh_idle"
  /\ UNCHANGED <<fall_times, fh_t, rest_four_heights>>

\* The height animate gives ball i at time tt: t_elapsed = t - start_times[i];
\* heights[i] before the start, heights[i] - 0.5 * g * t_elapsed**2 up to
\* fall_times[i], 0 after; never below 0.
BallHeight(i, tt) ==
  LET t_elapsed == tt - start_times(i)
      h == IF t_elapsed < 0 THEN heights[i]
           ELSE IF t_elapsed <= fall_times[i]
                THEN heights[i] - FMul(FMul(Half, fh_g), FMul(t_elapsed, t_elapsed))
                ELSE 0
  IN  IF h < 0 THEN 0 ELSE h

\* animate(frame): t = t_array[frame]; every ball is placed; the artists are
\* returned and the next frame follows.
fh_animate ==
  /\ pc = "fh_idle"
  /\ frame < fh_n_frames
  /\ fh_t' = fh_t_array(frame)
  /\ fh_particles' =
       [i \in 1 .. n_balls |-> <<ball_x_positions[i], BallHeight(i, fh_t_array(frame))>>]
  /\ frame' = frame + 1
  /\ UNCHANGED <<fall_times, pc, rest_four_heights>>

NextFourHeights ==
  \/ fh_load
  \/ fh_init
  \/ fh_animate

\* ---------------------------------- free_fall_time_symmetry_animation.py

\* g = 9.8
ts_g == (98 * Unit) \div 10

\* h0 = 10.0
ts_h0 == 10 * Unit

\* m = 1.0
ts_m == Unit

\* delay = 1.0
ts_delay == Unit

\* t_ball2_start = t_fall + delay
t_ball2_start == ts_t_fall + ts_delay

\* t_total = t_ball2_start + t_fall + 0.5
t_total == t_ball2_start + ts_t_fall + Half

ts_fps == 60

\* dt = 1.0 / fps
ts_dt == Unit \div ts_fps

\* n_frames = int(t_total / dt) + 1
ts_n_frames == FInt(FDiv(t_total, ts_dt)) + 1

\* t_array = np.linspace(0, t_total, n_frames)
ts_t_array(i) == np_linspace(0, t_total, ts_n_frames, i)

\* The x coordinates of the two balls, 2.5 and 5.5.
ts_x1 == (25 * Unit) \div 10

ts_x2 == (55 * Unit) \div 10

\* alpha = 0.3 of the waiting ball, 1.0 of the falling one
ts_alpha_waiting == (3 * Unit) \div 10

Min(p, q) == IF p < q THEN p ELSE q

Max(p, q) == IF p > q THEN p ELSE q

\* calc_lagrangian(tau), tau >= 0: tau is capped at t_fall, v = g * tau,
\* h = h0 - 0.5 * g * tau**2; below the ground h = 0, v = sqrt(2 g h0);
\* T - V is returned.
calc_lagrangian(tau) ==
  IF tau < 0 THEN None
  ELSE LET tc == IF tau > ts_t_fall THEN ts_t_fall ELSE tau
           v0 == FMul(ts_g, tc)
           h0 == ts_h0 - FMul(FMul(Half, ts_g), FMul(tc, tc))
           v  == IF h0 < 0 THEN FSqrt(FMul(FMul(2 * Unit, ts_g), ts_h0)) ELSE v0
           h  == IF h0 < 0 THEN 0 ELSE h0
       IN  FMul(FMul(Half, ts_m), FMul(v, v)) - FMul(FMul(ts_m, ts_g), h)

\* np.linspace(0, elapsed, max(1, int(elapsed / dt))) and the Lagrangian at
\* each of its values: the data of a ball's curve.
LagrangianHistory(elapsed) ==
  LET num == Max(1, FInt(FDiv(elapsed, ts_dt)))
  IN  [k \in 1 .. num |->
         LET tau == np_linspace(0, elapsed, num, k - 1)
         IN  <<tau, calc_lagrangian(tau)>>]

\* Ball 1 at time tt (lines 157-164): its height.
h1(tt) ==
  IF tt <= ts_t_fall
  THEN Max(0, ts_h0 - FMul(FMul(Half, ts_g), FMul(tt, tt)))
  ELSE 0

\* Ball 1's curve (lines 169-171).
L1_history(tt) == LagrangianHistory(Min(tt, ts_t_fall))

\* Ball 1's marker (lines 174-178); tau1 is t here, as t <= t_fall.
L1_point(tt) ==
  IF tt <= ts_t_fall THEN << <<tt, calc_lagrangian(tt)>> >> ELSE <<>>

\* Faulty variant of tau2: the delay between landing and start forgotten.
tau2NoDelay(tt) == tt - ts_t_fall

\* tau2 = t - t_ball2_start
tau2(tt) == tt - t_ball2_start

\* Ball 2 at time tt >= t_ball2_start (lines 190-198): its height.
h2(tt) ==
  IF tau2(tt) <= ts_t_fall
  THEN Max(0, ts_h0 - FMul(FMul(Half, ts_g), FMul(tau2(tt), tau2(tt))))
  ELSE 0

\* tau2 after line 198: t_fall once the ball has landed.
tau2_capped(tt) == IF tau2(tt) <= ts_t_fall THEN tau2(tt) ELSE ts_t_fall

\* Ball 2's curve (lines 203-206).
L2_history(tt) == LagrangianHistory(Min(tau2_capped(tt), ts_t_fall))

\* Ball 2's marker (lines 209-213); the test is on the capped tau2.
L2_point(tt) ==
  IF tau2_capped(tt) <= ts_t_fall
  THEN << <<tau2_capped(tt), calc_lagrangian(tau2_capped(tt))>> >>
  ELSE <<>>

\* The artists after init().
TimeSymmetryReset ==
  /\ particle1 = [center |-> <<ts_x1, ts_h0>>, alpha |-> Unit]
  /\ particle2 = [center |-> <<ts_x2, ts_h0>>, alpha |-> ts_alpha_waiting]
  /\ line1 = <<>> /\ line2 = <<>>
  /\ point1 = <<>> /\ point2 = <<>>
  /\ result_text = ""

\* t_fall and the artists as the module creates them (lines 25, 90-138).
TimeSymmetryLoaded ==
  /\ ts_t_fall = FSqrt(FDiv(2 * ts_h0, ts_g))
  /\ ts_t = 0
  /\ TimeSymmetryReset

\* t_fall = np.sqrt(2 * h0 / g), rounded to one of its two neighbours.
ts_load ==
  /\ pc = "ts_load"
  /\ \E up \in {0, 1} : ts_t_fall' = FSqrt(FDiv(2 * ts_h0, ts_g)) + up
  /\ pc' = "ts_init"
  /\ UNCHANGED <<ts_t, particle1, particle2, line1, line2, point1, point2,
                 result_text, frame, rest_time_symmetry>>

\* init(): the artists are reset; frame 0 follows.
ts_init ==
  /\ pc = "ts_init"
  /\ particle1' = [center |-> <<ts_x1, ts_h0>>, alpha |-> Unit]
  /\ particle2' = [center |-> <<ts_x2, ts_h0>>, alpha |-> ts_alpha_waiting]
  /\ line1' = <<>> /\ line2' = <<>>
  /\ point1' = <<>> /\ point2' = <<>>
  /\ result_text' = ""
  /\ frame' = 0
  /\ pc' = "ts_idle"
  /\ UNCHANGED <<ts_t_fall, ts_t, rest_time_symmetry>>

\* animate(frame): t = t_array[frame]; ball 1, its curve and its marker.
ts_animate_ball1 ==
  /\ pc = "ts_idle"
  /\ frame < ts_n_frames
  /\ ts_t' = ts_t_array(frame)
  /\ particle1' = [particle1 EXCEPT !.center = <<ts_x1, h1(ts_t_array(frame))>>]
  /\ line1' = L1_history(ts_t_array(frame))
  /\ point1' = L1_point(ts_t_array(frame))
  /\ pc' = "ts_ball2"
  /\ UNCHANGED <<ts_t_fall, particle2, line2, point2, result_text, frame,
                 rest_time_symmetry>>

\* if t < t_ball2_start: ball 2 waits at h0, without curve or marker.
ts_animate_ball2_waiting ==
  /\ pc = "ts_ball2"
  /\ ts_t < t_ball2_start
  /\ particle2' = [center |-> <<ts_x2, ts_h0>>, alpha |-> ts_alpha_waiting]
  /\ line2' = <<>>
  /\ point2' = <<>>
  /\ pc' = "ts_result"
  /\ UNCHANGED <<ts_t_fall, ts_t, particle1, line1, point1, result_text, frame,
                 rest_time_symmetry>>

\* else: ball 2 falls; its height, its curve and its marker.
ts_animate_ball2_falling ==
  /\ pc = "ts_ball2"
  /\ ~(ts_t < t_ball2_start)
  /\ particle2' = [center |-> <<ts_x2, h2(ts_t)>>, alpha |-> Unit]
  /\ line2' = L2_history(ts_t)
  /\ point2' = L2_point(ts_t)
  /\ pc' = "ts_result"
  /\ UNCHANGED <<ts_t_fall, ts_t, particle1, line1, point1, result_text, frame,
                 rest_time_symmetry>>

\* The result text once ball 2 has landed; the artists are returned and the
\* next frame follows.
ts_animate_result ==
  /\ pc = "ts_result"
  /\ result_text' = IF ts_t >= t_ball2_start + ts_t_fall THEN "Same curve!" ELSE ""
  /\ frame' = frame + 1
  /\ pc' = "ts_idle"
  /\ UNCHANGED <<ts_t_fall, ts_t, particle1, particle2, line1, line2, point1,
                 point2, rest_time_symmetry>>

NextTimeSymmetry ==
  \/ ts_load
  \/ ts_init
  \/ ts_animate_ball1
  \/ ts_animate_ball2_waiting
  \/ ts_animate_ball2_falling
  \/ ts_animate_result

\* ------------------------------------ free_fall_two_heights_animation.py

\* g = 9.8
th_g == (98 * Unit) \div 10

\* h0_left = 10.0
h0_left == 10 * Unit

\* h0_right = 11.0
h0_right == 11 * Unit

\* m = 1.0
th_m == Unit

E_left == FMul(FMul(th_m, th_g), h0_left)

E_right == FMul(FMul(th_m, th_g), h0_right)

\* t_max = t_fall_right
th_t_max == t_fall_right

th_fps == 60

\* dt = 1.0 / fps
th_dt == Unit \div th_fps

\* n_frames = int(t_max / dt) + 1
th_n_frames == FInt(FDiv(th_t_max, th_dt)) + 1

\* t_array = np.linspace(0, t_max, n_frames)
th_t_array(i) == np_linspace(0, th_t_max, th_n_frames, i)

\* bar_scale = 0.1
bar_scale == Unit \div 10

\* The x coordinates of the two balls, 2 and 9.
th_x_left == 2 * Unit

th_x_right == 9 * Unit

\* t_fall_left, t_fall_right and the artists as the module creates them
\* (lines 26-27, 59-108).
TwoHeightsLoaded ==
  /\ t_fall_left = FSqrt(FDiv(2 * h0_left, th_g))
  /\ t_fall_right = FSqrt(FDiv(2 * h0_right, th_g))
  /\ th_t = 0
  /\ h_left = 0 /\ v_left = 0 /\ U_left = 0 /\ K_left = 0
  /\ h_right = 0 /\ v_right = 0 /\ U_right = 0 /\ K_right = 0
  /\ particle_left = <<th_x_left, h0_left>>
  /\ particle_right = <<th_x_right, h0_right>>
  /\ potential_bar_left = [y |-> 0, height |-> FMul(E_left, bar_scale)]
  /\ kinetic_bar_left = [y |-> FMul(E_left, bar_scale), height |-> 0]
  /\ potential_bar_right = [y |-> 0, height |-> FMul(E_right, bar_scale)]
  /\ kinetic_bar_right = [y |-> FMul(E_right, bar_scale), height |-> 0]

\* t_fall_left = np.sqrt(2 * h0_left / g), t_fall_right likewise: each root
\* is rounded to one of its two neighbours on the grid.
th_load ==
  /\ pc = "th_load"
  /\ \E up \in {0, 1} : t_fall_left' = FSqrt(FDiv(2 * h0_left, th_g)) + up
  /\ \E up \in {0, 1} : t_fall_right' = FSqrt(FDiv(2 * h0_right, th_g)) + up
  /\ pc' = "th_init"
  /\ UNCHANGED <<th_t, h_left, v_left, U_left, K_left, h_right, v_right, U_right,
                 K_right, particle_left, particle_right, potential_bar_left,
                 kinetic_bar_left, potential_bar_right, kinetic_bar_right,
                 frame, rest_two_heights>>

\* init(): both balls and their bars in the state of t = 0; frame 0 follows.
th_init ==
  /\ pc = "th_init"
  /\ particle_left' = <<th_x_left, h0_left>>
  /\ potential_bar_left' = [potential_bar_left EXCEPT !.height = FMul(E_left, bar_scale)]
  /\ kinetic_bar_left' = [y |-> FMul(E_left, bar_scale), height |-> 0]
  /\ particle_right' = <<th_x_right, h0_right>>
  /\ potential_bar_right' = [potential_bar_right EXCEPT !.height = FMul(E_right, bar_scale)]
  /\ kinetic_bar_right' = [y |-> FMul(E_right, bar_scale), height |-> 0]
  /\ frame' = 0
  /\ pc' = "th_idle"
  /\ UNCHANGED <<t_fall_left, t_fall_right, th_t, h_left, v_left, U_left, K_left,
                 h_right, v_right, U_right, K_right, rest_two_heights>>

\* animate(frame): t = t_array[frame]
th_animate ==
  /\ pc = "th_idle"
  /\ frame < th_n_frames
  /\ th_t' = th_t_array(frame)
  /\ pc' = "th_left"
  /\ UNCHANGED <<t_fall_left, t_fall_right, h_left, v_left, U_left, K_left,
                 h_right, v_right, U_right, K_right, particle_left, particle_right,
                 potential_bar_left, kinetic_bar_left, potential_bar_right,
                 kinetic_bar_right, frame, rest_two_heights>>

\* h = h0 - 0.5 * g * t**2
FallHeight(h0, tt) == h0 - FMul(FMul(Half, th_g), FMul(tt, tt))

\* np.sqrt(2 * g * h0), the speed on the ground
GroundSpeed(h0) == FSqrt(FMul(FMul(2 * Unit, th_g), h0))

\* Faulty variant of th_left_landed: the landed ball is given no speed.
th_left_landed_at_rest ==
  /\ pc = "th_left"
  /\ ~(th_t <= t_fall_left)
  /\ h_left' = 0
  /\ v_left' = 0
  /\ pc' = "th_left_bars"
  /\ UNCHANGED <<t_fall_left, t_fall_right, th_t, U_left, K_left,
                 h_right, v_right, U_right, K_right, particle_left, particle_right,
                 potential_bar_left, kinetic_bar_left, potential_bar_right,
                 kinetic_bar_right, frame, rest_two_heights>>

\* Left ball, t <= t_fall_left: h and v of the fall; below the ground h = 0
\* and v is the ground speed.
th_left_falling ==
  /\ pc = "th_left"
  /\ th_t <= t_fall_left
  /\ h_left' = IF FallHeight(h0_left, th_t) < 0 THEN 0 ELSE FallHeight(h0_left, th_t)
  /\ v_left' = IF FallHeight(h0_left, th_t) < 0 THEN GroundSpeed(h0_left)
               ELSE FMul(th_g, th_t)
  /\ pc' = "th_left_bars"
  /\ UNCHANGED <<t_fall_left, t_fall_right, th_t, U_left, K_left,
                 h_right, v_right, U_right, K_right, particle_left, particle_right,
                 potential_bar_left, kinetic_bar_left, potential_bar_right,
                 kinetic_bar_right, frame, rest_two_heights>>

\* Left ball, t > t_fall_left: on the ground with the ground speed.
th_left_landed ==
  /\ pc = "th_left"
  /\ ~(th_t <= t_fall_left)
  /\ h_left' = 0
  /\ v_left' = GroundSpeed(h0_left)
  /\ pc' = "th_left_bars"
  /\ UNCHANGED <<t_fall_left, t_fall_right, th_t, U_left, K_left,
                 h_right, v_right, U_right, K_right, particle_left, particle_right,
                 potential_bar_left, kinetic_bar_left, potential_bar_right,
                 kinetic_bar_right, frame, rest_two_heights>>

\* U_left, K_left, the left ball and its bars (lines 157-169).
th_left_bars ==
  /\ pc = "th_left_bars"
  /\ U_left' = FMul(FMul(th_m, th_g), h_left)
  /\ K_left' = FMul(FMul(Half, th_m), FMul(v_left, v_left))
  /\ particle_left' = <<th_x_left, h_left>>
  /\ potential_bar_left' =
       [potential_bar_left EXCEPT
          !.height = FMul(FMul(FMul(th_m, th_g), h_left), bar_scale)]
  /\ kinetic_bar_left' =
       [y |-> FMul(FMul(FMul(th_m, th_g), h_left), bar_scale),
        height |-> FMul(FMul(FMul(Half, th_m), FMul(v_left, v_left)), bar_scale)]
  /\ pc' = "th_right"
  /\ UNCHANGED <<t_fall_left, t_fall_right, th_t, h_left, v_left,
                 h_right, v_right, U_right, K_right, particle_right,
                 potential_bar_right, kinetic_bar_right, frame, rest_two_heights>>

\* Right ball (lines 172-184): as the left one; t <= t_fall_right holds up to
\* the last frame, whose time is t_max = t_fall_right.
th_right ==
  /\ pc = "th_right"
  /\ h_right' = IF th_t <= t_fall_right /\ ~(FallHeight(h0_right, th_t) < 0)
                THEN FallHeight(h0_right, th_t) ELSE 0
  /\ v_right' = IF th_t <= t_fall_right /\ ~(FallHeight(h0_right, th_t) < 0)
                THEN FMul(th_g, th_t) ELSE GroundSpeed(h0_right)
  /\ pc' = "th_right_bars"
  /\ UNCHANGED <<t_fall_left, t_fall_right, th_t, h_left, v_left, U_left, K_left,
                 U_right, K_right, particle_left, particle_right,
                 potential_bar_left, kinetic_bar_left, potential_bar_right,
                 kinetic_bar_right, frame, rest_two_heights>>

\* U_right, K_right, the right ball and its bars (lines 187-202); the artists
\* are returned and the next frame follows.
th_right_bars ==
  /\ pc = "th_right_bars"
  /\ U_right' = FMul(FMul(th_m, th_g), h_right)
  /\ K_right' = FMul(FMul(Half, th_m), FMul(v_right, v_right))
  /\ particle_right' = <<th_x_right, h_right>>
  /\ potential_bar_right' =
       [potential_bar_right EXCEPT
          !.height = FMul(FMul(FMul(th_m, th_g), h_right), bar_scale)]
  /\ kinetic_bar_right' =
       [y |-> FMul(FMul(FMul(th_m, th_g), h_right), bar_scale),
        height |-> FMul(FMul(FMul(Half, th_m), FMul(v_right, v_right)), bar_scale)]
  /\ frame' = frame + 1
  /\ pc' = "th_idle"
  /\ UNCHANGED <<t_fall_left, t_fall_right, th_t, h_left, v_left, U_left, K_left,
                 h_right, v_right, particle_left, potential_bar_left,
                 kinetic_bar_left, rest_two_heights>>

NextTwoHeights ==
  \/ th_load
  \/ th_init
  \/ th_animate
  \/ th_left_falling
  \/ th_left_landed
  \/ th_left_bars
  \/ th_right
  \/ th_right_bars

\* ------------------------------------------- free_fall_four_horizontal.py

\* g = 9.8
f4_g == (98 * Unit) \div 10

\* h0 = 25.0
f4_h0 == 25 * Unit

f4_fps == 60

\* dt = 1.0 / fps
f4_dt == Unit \div f4_fps

\* n_frames = int(t_fall / dt) + 1
f4_n_frames == FInt(FDiv(f4_t_fall, f4_dt)) + 1

\* t_array = np.linspace(0, t_fall, n_frames)
f4_t_array(i) == np_linspace(0, f4_t_fall, f4_n_frames, i)

\* x_positions = [2, 5, 8, 11]
x_positions == <<2 * Unit, 5 * Unit, 8 * Unit, 11 * Unit>>

\* t_fall and the balls as the module creates them (lines 19, 52-56).
FourHorizontalLoaded ==
  /\ f4_t_fall = FSqrt(FDiv(2 * f4_h0, f4_g))
  /\ f4_t = 0
  /\ f4_h = 0
  /\ f4_particles = [i \in DOMAIN x_positions |-> <<x_positions[i], f4_h0>>]

\* t_fall = np.sqrt(2 * h0 / g), rounded to one of its two neighbours.
f4_load ==
  /\ pc = "f4_load"
  /\ \E up \in {0, 1} : f4_t_fall' = FSqrt(FDiv(2 * f4_h0, f4_g)) + up
  /\ pc' = "f4_init"
  /\ UNCHANGED <<f4_t, f4_h, f4_particles, frame, rest_four_horizontal>>

\* init(): every ball at (x_positions[i], h0); frame 0 follows.
f4_init ==
  /\ pc = "f4_init"
  /\ f4_particles' = [i \in DOMAIN x_positions |-> <<x_positions[i], f4_h0>>]
  /\ frame' = 0
  /\ pc' = "f4_idle"
  /\ UNCHANGED <<f4_t_fall, f4_t, f4_h, rest_four_horizontal>>

\* animate(frame): t = t_array[frame]; h = h0 - 0.5 * g * t**2
f4_animate ==
  /\ pc = "f4_idle"
  /\ frame < f4_n_frames
  /\ f4_t' = f4_t_array(frame)
  /\ f4_h' = f4_h0 - FMul(FMul(Half, f4_g), FMul(f4_t_array(frame), f4_t_array(frame)))
  /\ pc' = "f4_ground"
  /\ UNCHANGED <<f4_t_fall, f4_particles, frame, rest_four_horizontal>>

\* if h < 0: h = 0
f4_ground_reached ==
  /\ pc = "f4_ground"
  /\ f4_h < 0
  /\ f4_h' = 0
  /\ pc' = "f4_place"
  /\ UNCHANGED <<f4_t_fall, f4_t, f4_particles, frame, rest_four_horizontal>>

\* h >= 0: h is kept.
f4_above_ground ==
  /\ pc = "f4_ground"
  /\ ~(f4_h < 0)
  /\ pc' = "f4_place"
  /\ UNCHANGED <<four_horizontal, frame, rest_four_horizontal>>

\* Faulty variant of f4_place: the balls to the right lag behind by their x.
f4_place_skewed ==
  /\ pc = "f4_place"
  /\ f4_particles' = [i \in DOMAIN x_positions |->
                        <<x_positions[i], f4_h + FMul(x_positions[i], f4_t)>>]
  /\ frame' = frame + 1
  /\ pc' = "f4_idle"
  /\ UNCHANGED <<f4_t_fall, f4_t, f4_h, rest_four_horizontal>>

\* for i, particle in enumerate(particles): particle.center = (x_positions[i], h);
\* the artists are returned and the next frame follows.
f4_place ==
  /\ pc = "f4_place"
  /\ f4_particles' = [i \in DOMAIN x_positions |-> <<x_positions[i], f4_h>>]
  /\ frame' = frame + 1
  /\ pc' = "f4_idle"
  /\ UNCHANGED <<f4_t_fall, f4_t, f4_h, rest_four_horizontal>>

NextFourHorizontal ==
  \/ f4_load
  \/ f4_init
  \/ f4_animate
  \/ f4_ground_reached
  \/ f4_above_ground
  \/ f4_place


\* ------------------------------- equipotential_horizontal_motion.py

\* fps = 60
eq_fps == 60

\* duration = 15.0
eq_duration == 15 * Unit

\* n_frames = int(fps * duration)
eq_n_frames == FInt(FMul(eq_fps * Unit, eq_duration))

\* line_heights = [5, 10, 15]
eq_line_heights == <<5 * Unit, 10 * Unit, 15 * Unit>>

\* middle_height = line_heights[1], the second of the three
middle_height == eq_line_heights[2]

\* ball_start_x = 1.5
ball_start_x == (15 * Unit) \div 10

\* ball_end_x = 10.5
ball_end_x == (105 * Unit) \div 10

\* line_draw_duration = int(n_frames * 0.25)
line_draw_duration == FInt(FMul(eq_n_frames * Unit, (25 * Unit) \div 100))

\* ball_start_frame = line_draw_duration + int(fps * 1.0)
ball_start_frame == line_draw_duration + FInt(FMul(eq_fps * Unit, Unit))

\* ball_move_duration = int(n_frames * 0.55)
ball_move_duration == FInt(FMul(eq_n_frames * Unit, (55 * Unit) \div 100))

\* The text shown while and after the ball moves.
HorizontalMotionText == "horizontal motion: no change of potential energy"

\* line.set_data([0.5, x_end], [h, h]) for each line
LinesUpTo(x_end) ==
  [i \in DOMAIN eq_line_heights |->
     <<<<Unit \div 2, x_end>>, <<eq_line_heights[i], eq_line_heights[i]>>>>]

\* The artists as init() sets them, which is also how the module creates them
\* (lines 59-81).
EquipotentialReset(lines, labels, circle, title, text) ==
  /\ lines = [i \in DOMAIN eq_line_heights |-> <<<<>>, <<>>>>]
  /\ labels = [i \in DOMAIN eq_line_heights |-> 0]
  /\ circle = [center |-> <<ball_start_x, middle_height>>, alpha |-> 0]
  /\ title = 0
  /\ text = ""

EquipotentialLoaded ==
  EquipotentialReset(eq_potential_lines, line_labels, ball, title_label,
                     explanation_text)

\* init()
eq_init ==
  /\ pc = "eq_init"
  /\ EquipotentialReset(eq_potential_lines', line_labels', ball', title_label',
                        explanation_text')
  /\ frame' = 0
  /\ pc' = "eq_idle"
  /\ UNCHANGED rest_equipotential

\* progress = frame / line_draw_duration
LineProgress(f) == FDiv(f * Unit, line_draw_duration * Unit)

\* eased_progress = 1 - (1 - progress) ** 2;  x_end = 0.5 + eased_progress * 11.0
LineEnd(f) ==
  Unit \div 2
    + FMul(Unit - FMul(Unit - LineProgress(f), Unit - LineProgress(f)), 11 * Unit)

\* animate(frame), if frame < line_draw_duration: the three lines grow and the
\* title fades in.
eq_animate_lines_growing ==
  /\ pc = "eq_idle"
  /\ frame < eq_n_frames
  /\ frame < line_draw_duration
  /\ eq_potential_lines' = LinesUpTo(LineEnd(frame))
  /\ title_label' = Min(Unit, FMul(LineProgress(frame), 2 * Unit))
  /\ pc' = "eq_ball"
  /\ UNCHANGED <<line_labels, ball, explanation_text, frame, rest_equipotential>>

\* label_fade_progress = min(1.0, (frame - line_draw_duration) / (fps * 0.5))
label_fade_progress(f) ==
  Min(Unit, FDiv((f - line_draw_duration) * Unit, FMul(eq_fps * Unit, Half)))

\* animate(frame), else: the lines are complete and the labels fade in.
eq_animate_lines_drawn ==
  /\ pc = "eq_idle"
  /\ frame < eq_n_frames
  /\ ~(frame < line_draw_duration)
  /\ eq_potential_lines' = LinesUpTo((115 * Unit) \div 10)
  /\ title_label' = Unit
  /\ line_labels' = [i \in DOMAIN line_labels |-> label_fade_progress(frame)]
  /\ pc' = "eq_ball"
  /\ UNCHANGED <<ball, explanation_text, frame, rest_equipotential>>

\* animate(frame), frame < ball_start_frame: the ball is left as it is.
eq_ball_waiting ==
  /\ pc = "eq_ball"
  /\ ~(frame >= ball_start_frame)
  /\ frame' = frame + 1
  /\ pc' = "eq_idle"
  /\ UNCHANGED <<equipotential, rest_equipotential>>

\* progress = move_frame / ball_move_duration
MoveProgress(move_frame) == FDiv(move_frame * Unit, ball_move_duration * Unit)

\* eased_progress = progress * progress * (3 - 2 * progress)
Smoothstep(progress) ==
  FMul(FMul(progress, progress), 3 * Unit - FMul(2 * Unit, progress))

\* x = ball_start_x + eased_progress * (ball_end_x - ball_start_x)
BallX(move_frame) ==
  ball_start_x + FMul(Smoothstep(MoveProgress(move_frame)), ball_end_x - ball_start_x)

\* Faulty variant of eq_ball_moving: the ball sags below the line on its way.
eq_ball_moving_sagging ==
  /\ pc = "eq_ball"
  /\ frame >= ball_start_frame
  /\ frame - ball_start_frame < ball_move_duration
  /\ ball' = [center |-> <<BallX(frame - ball_start_frame),
                           middle_height
                             - FMul(Smoothstep(MoveProgress(frame - ball_start_frame)),
                                    Unit - Smoothstep(MoveProgress(frame - ball_start_frame)))>>,
              alpha |-> Unit]
  /\ explanation_text' = HorizontalMotionText
  /\ frame' = frame + 1
  /\ pc' = "eq_idle"
  /\ UNCHANGED <<eq_potential_lines, line_labels, title_label, rest_equipotential>>

\* animate(frame), frame >= ball_start_frame and move_frame < ball_move_duration:
\* the ball is shown and moved along the middle line.
eq_ball_moving ==
  /\ pc = "eq_ball"
  /\ frame >= ball_start_frame
  /\ frame - ball_start_frame < ball_move_duration
  /\ ball' = [center |-> <<BallX(frame - ball_start_frame), middle_height>>,
              alpha |-> Unit]
  /\ explanation_text' = HorizontalMotionText
  /\ frame' = frame + 1
  /\ pc' = "eq_idle"
  /\ UNCHANGED <<eq_potential_lines, line_labels, title_label, rest_equipotential>>

\* animate(frame), frame >= ball_start_frame, else: the ball has arrived.
eq_ball_arrived ==
  /\ pc = "eq_ball"
  /\ frame >= ball_start_frame
  /\ ~(frame - ball_start_frame < ball_move_duration)
  /\ ball' = [center |-> <<ball_end_x, middle_height>>, alpha |-> Unit]
  /\ explanation_text' = HorizontalMotionText
  /\ frame' = frame + 1
  /\ pc' = "eq_idle"
  /\ UNCHANGED <<eq_potential_lines, line_labels, title_label, rest_equipotential>>

NextEquipotential ==
  \/ eq_init
  \/ eq_animate_lines_growing
  \/ eq_animate_lines_drawn
  \/ eq_ball_waiting
  \/ eq_ball_moving
  \/ eq_ball_arrived


\* ------------------------------------ gravity_potential_animation.py

\* fps = 60
gp_fps == 60

\* duration = 15.0
gp_duration == 15 * Unit

\* n_frames = int(fps * duration)
gp_n_frames == FInt(FMul(gp_fps * Unit, gp_duration))

\* n_lines = 6
n_lines == 6

\* line_heights = np.linspace(1.5, 9.0, n_lines)
gp_line_heights ==
  [i \in 1..n_lines |->
     np_linspace((15 * Unit) \div 10, 9 * Unit, n_lines, i - 1)]

\* n_arrows = 5
n_arrows == 5

\* arrow_x_positions = np.linspace(1.5, 10.5, n_arrows)
arrow_x_positions ==
  [i \in 1..n_arrows |->
     np_linspace((15 * Unit) \div 10, (105 * Unit) \div 10, n_arrows, i - 1)]

\* frames_per_line = int(n_frames * 0.4 / n_lines)
frames_per_line ==
  FInt(FDiv(FMul(gp_n_frames * Unit, (4 * Unit) \div 10), n_lines * Unit))

\* line_start_frames = [int(n_frames * 0.05) + i * frames_per_line
\*                      for i in range(n_lines)]
\* line_start_frames[i] here is the script's line_start_frames[i - 1].
line_start_frames ==
  [i \in 1..n_lines |->
     FInt(FMul(gp_n_frames * Unit, (5 * Unit) \div 100)) + (i - 1) * frames_per_line]

\* Faulty variant of arrow_start_frame: counted from the first line, not the
\* last.
arrow_start_frame_from_first ==
  line_start_frames[1] + frames_per_line
    + FInt(FMul(gp_n_frames * Unit, (5 * Unit) \div 100))

\* arrow_start_frame = line_start_frames[-1] + frames_per_line + int(n_frames * 0.05)
arrow_start_frame ==
  line_start_frames[n_lines] + frames_per_line
    + FInt(FMul(gp_n_frames * Unit, (5 * Unit) \div 100))

\* arrow_duration = int(n_frames * 0.25)
arrow_duration == FInt(FMul(gp_n_frames * Unit, (25 * Unit) \div 100))

\* label_start_frame = int(n_frames * 0.02)
label_start_frame == FInt(FMul(gp_n_frames * Unit, (2 * Unit) \div 100))

\* The text of energy_label once it is shown.
EnergyLabelText == "potential energy = mgh"

\* ax.plot([], []) and line.set_data([], [])
NoLines == [i \in 1..n_lines |-> <<<<>>, <<>>>>]

\* The artists as the module creates them (lines 65-92): each arrow of length
\* zero at its own x, the height indicator visible as annotate() makes it.
GravityPotentialLoaded ==
  /\ gp_potential_lines = NoLines
  /\ gradient_arrows =
       [i \in 1..n_arrows |->
          [posA |-> <<arrow_x_positions[i], (85 * Unit) \div 10>>,
           posB |-> <<arrow_x_positions[i], (85 * Unit) \div 10>>,
           alpha |-> (9 * Unit) \div 10]]
  /\ energy_label = ""
  /\ height_label = 0
  /\ height_indicator = TRUE

\* init(): every arrow is put at arrow_x_positions[0] with length zero.
gp_init ==
  /\ pc = "gp_init"
  /\ gp_potential_lines' = NoLines
  /\ gradient_arrows' =
       [i \in 1..n_arrows |->
          [posA |-> <<arrow_x_positions[1], (85 * Unit) \div 10>>,
           posB |-> <<arrow_x_positions[1], (85 * Unit) \div 10>>,
           alpha |-> 0]]
  /\ energy_label' = ""
  /\ height_label' = 0
  /\ height_indicator' = FALSE
  /\ frame' = 0
  /\ pc' = "gp_idle"
  /\ UNCHANGED rest_gravity_potential

\* animate(frame), frame >= label_start_frame: the labels are shown.
gp_animate_labels_shown ==
  /\ pc = "gp_idle"
  /\ frame < gp_n_frames
  /\ frame >= label_start_frame
  /\ energy_label' = EnergyLabelText
  /\ height_label' = Unit
  /\ height_indicator' = TRUE
  /\ pc' = "gp_lines"
  /\ UNCHANGED <<gp_potential_lines, gradient_arrows, frame, rest_gravity_potential>>

\* animate(frame), frame < label_start_frame: the labels are left alone.
gp_animate_labels_waiting ==
  /\ pc = "gp_idle"
  /\ frame < gp_n_frames
  /\ ~(frame >= label_start_frame)
  /\ pc' = "gp_lines"
  /\ UNCHANGED <<gravity_potential, frame, rest_gravity_potential>>

\* One pass of the loop over the lines: line i at the frame f.
LineData(i, f) ==
  IF f < line_start_frames[i]
  THEN <<<<>>, <<>>>>
  ELSE IF f < line_start_frames[i] + frames_per_line
  THEN <<<<Unit \div 2,
           Unit \div 2
             + FMul(FDiv((f - line_start_frames[i]) * Unit, frames_per_line * Unit),
                    11 * Unit)>>,
         <<gp_line_heights[i], gp_line_heights[i]>>>>
  ELSE <<<<Unit \div 2, (115 * Unit) \div 10>>,
         <<gp_line_heights[i], gp_line_heights[i]>>>>

\* animate(frame): the loop over the lines.
gp_animate_lines ==
  /\ pc = "gp_lines"
  /\ gp_potential_lines' = [i \in 1..n_lines |-> LineData(i, frame)]
  /\ pc' = "gp_arrows"
  /\ UNCHANGED <<gradient_arrows, energy_label, height_label, height_indicator,
                 frame, rest_gravity_potential>>

\* animate(frame), frame < arrow_start_frame: the arrows are left alone.
gp_arrows_waiting ==
  /\ pc = "gp_arrows"
  /\ ~(frame >= arrow_start_frame)
  /\ frame' = frame + 1
  /\ pc' = "gp_idle"
  /\ UNCHANGED <<gravity_potential, rest_gravity_potential>>

\* arrow_progress = min(1.0, (frame - arrow_start_frame) / arrow_duration)
arrow_progress(f) ==
  Min(Unit, FDiv((f - arrow_start_frame) * Unit, arrow_duration * Unit))

\* eased_progress = 1 - (1 - arrow_progress) ** 2
\* arrow_length = eased_progress * 6.5
arrow_length(f) ==
  FMul(Unit - FMul(Unit - arrow_progress(f), Unit - arrow_progress(f)),
       (65 * Unit) \div 10)

\* end_y = start_y - arrow_length;  if end_y < 1.0: end_y = 1.0
arrow_end_y(f) ==
  IF 9 * Unit - arrow_length(f) < Unit THEN Unit ELSE 9 * Unit - arrow_length(f)

\* animate(frame), frame >= arrow_start_frame: every arrow grows downwards
\* from y = 9.0 at its own x.
gp_arrows_growing ==
  /\ pc = "gp_arrows"
  /\ frame >= arrow_start_frame
  /\ gradient_arrows' =
       [i \in 1..n_arrows |->
          [posA |-> <<arrow_x_positions[i], 9 * Unit>>,
           posB |-> <<arrow_x_positions[i], arrow_end_y(frame)>>,
           alpha |-> (9 * Unit) \div 10]]
  /\ frame' = frame + 1
  /\ pc' = "gp_idle"
  /\ UNCHANGED <<gp_potential_lines, energy_label, height_label, height_indicator,
                 rest_gravity_potential>>

NextGravityPotential ==
  \/ gp_init
  \/ gp_animate_labels_shown
  \/ gp_animate_labels_waiting
  \/ gp_animate_lines
  \/ gp_arrows_waiting
  \/ gp_arrows_growing

\* ----------------------------------------------- the scripts at rest

\* The mechanics scripts as loaded, none of them running.
ScriptsIdle ==
  /\ MomentumLoaded
  /\ EnergyLoaded
  /\ FourHeightsLoaded
  /\ TimeSymmetryLoaded
  /\ TwoHeightsLoaded
  /\ FourHorizontalLoaded
  /\ EquipotentialLoaded
  /\ GravityPotentialLoaded

\* ------------------------------------------------------- the Kepler solver

\* tol = 1e-8 is 1 / TolInv.
TolInv == 10^8

\* Faulty variant of MaxIter: one pass too many.
MaxIterOffByOne == 100 + 1

\* The loop bound of range(100).
MaxIter == 100

\* Faulty variant of WithinTol: the tolerance taken as 1e-6.
WithinTolLoose(d) == Abs(d) <= (Scale - 1) \div 10^6

\* abs(E_new - E) < tol
WithinTol(d) == Abs(d) <= (Scale - 1) \div TolInv

\* Faulty variant of Denominator: np.cos(E) - e, as in the x coordinate.
DenominatorOfPosition(En, ecc) == Cos(En) - ecc

\* 1 - e * np.cos(E), the divisor of the Newton step
Denominator(En, ecc) == Scale - Mul(ecc, Cos(En))

\* E - (E - e * np.sin(E) - M) / (1 - e * np.cos(E))
NewtonUpdate(En, Mn, ecc) ==
  En - Div(En - Mul(ecc, Sin(En)) - Mn, Denominator(En, ecc))

\* M = 2 * np.pi * t / T
MeanAnomaly(tt) == Div(Mul(TwoPi, tt), T)

\* Faulty variant of PositionX: a * np.cos(E) - e, the parentheses lost.
PositionXUnparenthesised(En) == Mul(a, Cos(En)) - e

\* x = a * (np.cos(E) - e)
PositionX(En) == Mul(a, Cos(En) - e)

\* Faulty variant of PositionY: the semi-major axis used for y.
PositionYCircle(En) == Mul(a, Sin(En))

\* Faulty variant of PositionY: the cosine taken for y.
PositionYCosine(En) == Mul(b, Cos(En))

\* y = b * np.sin(E)
PositionY(En) == Mul(b, Sin(En))

\* Faulty variant of TrueAnomaly: the arguments of arctan2 exchanged.
TrueAnomalySwapped(En) ==
  2 * Arctan2(Mul(Sqrt(Scale - e), Cos(DivInt(En, 2))),
              Mul(Sqrt(Scale + e), Sin(DivInt(En, 2))))

\* theta = 2 * np.arctan2(np.sqrt(1 + e) * np.sin(E / 2), np.sqrt(1 - e) * np.cos(E / 2))
TrueAnomaly(En) ==
  2 * Arctan2(Mul(Sqrt(Scale + e), Sin(DivInt(En, 2))),
              Mul(Sqrt(Scale - e), Cos(DivInt(En, 2))))

\* b = a * np.sqrt(1 - e**2)
SemiMinor(aa, ecc) == Mul(aa, Sqrt(Scale - Mul(ecc, ecc)))

\* c = a * e
FocalDistance(aa, ecc) == Mul(aa, ecc)

\* Faulty variant of get_position_at_time: the call also records the second
\* of t in the module-level current_start_time.
get_position_at_timeWritesGlobal ==
  /\ pc = "gp_entry"
  /\ M' = MeanAnomaly(t)
  /\ E' = MeanAnomaly(t)
  /\ it' = 0
  /\ fn' = "pos"
  /\ iterates' = <<MeanAnomaly(t)>>
  /\ calls' = Append(calls, <<frame, t>>)
  /\ current_start_time' = t \div Scale
  /\ pc' = "newton"
  /\ UNCHANGED <<scripts, params, earth, current_sector, sector_patches, frame, ret, t,
                 E_new, Esol, x, y, theta, at, poly, results, converged>>

\* get_position_at_time(t): M is computed and the solver entered with E = M.
get_position_at_time ==
  /\ pc = "gp_entry"
  /\ M' = MeanAnomaly(t)
  /\ E' = MeanAnomaly(t)
  /\ it' = 0
  /\ fn' = "pos"
  /\ iterates' = <<MeanAnomaly(t)>>
  /\ calls' = Append(calls, <<frame, t>>)
  /\ pc' = "newton"
  /\ UNCHANGED <<scripts, params, artists, frame, ret, t, E_new, Esol, x, y, theta,
                 at, poly, results, converged>>

\* get_true_anomaly_at_time(t): likewise.
get_true_anomaly_at_time ==
  /\ pc = "gt_entry"
  /\ M' = MeanAnomaly(t)
  /\ E' = MeanAnomaly(t)
  /\ it' = 0
  /\ fn' = "theta"
  /\ iterates' = <<MeanAnomaly(t)>>
  /\ calls' = Append(calls, <<frame, t>>)
  /\ pc' = "newton"
  /\ UNCHANGED <<scripts, params, artists, frame, ret, t, E_new, Esol, x, y, theta,
                 at, poly, results, converged>>

\* One pass of the loop that meets the test: return E_new.
NewtonConverge ==
  /\ pc = "newton"
  /\ it < MaxIter
  /\ WithinTol(NewtonUpdate(E, M, e) - E)
  /\ E_new' = NewtonUpdate(E, M, e)
  /\ Esol' = NewtonUpdate(E, M, e)
  /\ iterates' = Append(iterates, NewtonUpdate(E, M, e))
  /\ converged' = TRUE
  /\ pc' = "solved"
  /\ UNCHANGED <<scripts, params, artists, frame, fn, ret, t, M, E, it, x, y, theta,
                 at, poly, results, calls>>

\* One pass of the loop that does not: E = E_new, next pass.
NewtonContinue ==
  /\ pc = "newton"
  /\ it < MaxIter
  /\ ~WithinTol(NewtonUpdate(E, M, e) - E)
  /\ E_new' = NewtonUpdate(E, M, e)
  /\ E' = NewtonUpdate(E, M, e)
  /\ it' = it + 1
  /\ iterates' = Append(iterates, NewtonUpdate(E, M, e))
  /\ UNCHANGED <<scripts, params, artists, frame, pc, fn, ret, t, M, Esol, x, y, theta,
                 at, poly, results, converged, calls>>

\* Faulty variant of NewtonExhaust: the value returned is E as it stood
\* before the last pass.
NewtonExhaustStale ==
  /\ pc = "newton"
  /\ it >= MaxIter
  /\ Esol' = iterates[Len(iterates) - 1]
  /\ converged' = FALSE
  /\ pc' = "solved"
  /\ UNCHANGED <<scripts, params, artists, frame, fn, ret, t, M, E, E_new, it, x, y, theta,
                 at, poly, results, iterates, calls>>

\* The loop ran out: return E.
NewtonExhaust ==
  /\ pc = "newton"
  /\ it >= MaxIter
  /\ Esol' = E
  /\ converged' = FALSE
  /\ pc' = "solved"
  /\ UNCHANGED <<scripts, params, artists, frame, fn, ret, t, M, E, E_new, it, x, y, theta,
                 at, poly, results, iterates, calls>>

\* get_position_at_time: x, y from the solver's E; return x, y.
get_position_return ==
  /\ pc = "solved"
  /\ fn = "pos"
  /\ x' = PositionX(Esol)
  /\ y' = PositionY(Esol)
  /\ pc' = ret
  /\ UNCHANGED <<scripts, params, artists, frame, fn, ret, t, M, E, E_new, it, Esol, theta,
                 at, poly, results, history>>

\* get_true_anomaly_at_time: theta from the solver's E; return theta.
get_true_anomaly_return ==
  /\ pc = "solved"
  /\ fn = "theta"
  /\ theta' = TrueAnomaly(Esol)
  /\ pc' = ret
  /\ UNCHANGED <<scripts, params, artists, frame, fn, ret, t, M, E, E_new, it, Esol, x, y,
                 at, poly, results, history>>

RECURSIVE NewtonLoop(_, _, _, _)
\* The loop of mean_anomaly_to_eccentric_anomaly run to its return: n passes
\* done, E the current iterate.
NewtonLoop(En, Mn, ecc, n) ==
  IF n >= MaxIter THEN En
  ELSE IF WithinTol(NewtonUpdate(En, Mn, ecc) - En) THEN NewtonUpdate(En, Mn, ecc)
  ELSE NewtonLoop(NewtonUpdate(En, Mn, ecc), Mn, ecc, n + 1)

\* mean_anomaly_to_eccentric_anomaly(M, e): E = M, then the loop.
mean_anomaly_to_eccentric_anomaly(Mn, ecc) == NewtonLoop(Mn, Mn, ecc, 0)

\* get_true_anomaly_at_time(t) as one evaluation.
TrueAnomalyAt(tt) ==
  TrueAnomaly(mean_anomaly_to_eccentric_anomaly(MeanAnomaly(tt), e))

\* ------------------------------------------- the functions called directly

\* The state every run starts from, the orbit parameters aside.
InitRest ==
  /\ earth = <<0, 0>>
  /\ current_sector = None
  /\ current_start_time = 0
  /\ sector_patches = <<>>
  /\ frame = -1
  /\ fn = "none"
  /\ ret = "none"
  /\ t = 0 /\ M = 0 /\ E = 0 /\ E_new = 0 /\ it = 0 /\ Esol = 0
  /\ x = 0 /\ y = 0 /\ theta = 0
  /\ at = 0
  /\ poly = None
  /\ pos1 = None /\ th1 = None /\ pos2 = None /\ th2 = None
  /\ pos3 = None /\ th3 = None
  /\ iterates = <<>>
  /\ converged = FALSE
  /\ calls = <<>>

Init ==
  /\ e \in EccSet
  /\ a \in AxisSet
  /\ T \in PeriodSet
  /\ b = SemiMinor(a, e)
  /\ c = FocalDistance(a, e)
  /\ ht \in {DivInt(j * T, TimeSteps) : j \in 0 .. TimeSteps}
  /\ pc = "h0"
  /\ InitRest
  /\ ScriptsIdle

\* get_position_at_time(ht)
CallPosition ==
  /\ pc = "h0"
  /\ t' = ht
  /\ ret' = "h1"
  /\ pc' = "gp_entry"
  /\ UNCHANGED <<scripts, params, artists, frame, fn, M, E, E_new, it, Esol, x, y, theta,
                 at, poly, results, history>>

\* get_true_anomaly_at_time(ht)
CallTrueAnomaly ==
  /\ pc = "h1"
  /\ pos1' = <<x, y>>
  /\ t' = ht
  /\ ret' = "h2"
  /\ pc' = "gt_entry"
  /\ UNCHANGED <<scripts, params, artists, frame, fn, M, E, E_new, it, Esol, x, y, theta,
                 at, poly, ht, th1, pos2, th2, pos3, th3, history>>

\* get_position_at_time(ht + T)
CallPositionNextPeriod ==
  /\ pc = "h2"
  /\ th1' = theta
  /\ t' = ht + T
  /\ ret' = "h3"
  /\ pc' = "gp_entry"
  /\ UNCHANGED <<scripts, params, artists, frame, fn, M, E, E_new, it, Esol, x, y, theta,
                 at, poly, ht, pos1, pos2, th2, pos3, th3, history>>

\* get_true_anomaly_at_time(ht + T)
CallTrueAnomalyNextPeriod ==
  /\ pc = "h3"
  /\ pos2' = <<x, y>>
  /\ t' = ht + T
  /\ ret' = "h4"
  /\ pc' = "gt_entry"
  /\ UNCHANGED <<scripts, params, artists, frame, fn, M, E, E_new, it, Esol, x, y, theta,
                 at, poly, ht, pos1, th1, th2, pos3, th3, history>>

\* get_position_at_time(ht), a second time
CallPositionAgain ==
  /\ pc = "h4"
  /\ th2' = theta
  /\ t' = ht
  /\ ret' = "h5"
  /\ pc' = "gp_entry"
  /\ UNCHANGED <<scripts, params, artists, frame, fn, M, E, E_new, it, Esol, x, y, theta,
                 at, poly, ht, pos1, th1, pos2, pos3, th3, history>>

\* get_true_anomaly_at_time(ht), a second time
CallTrueAnomalyAgain ==
  /\ pc = "h5"
  /\ pos3' = <<x, y>>
  /\ t' = ht
  /\ ret' = "h6"
  /\ pc' = "gt_entry"
  /\ UNCHANGED <<scripts, params, artists, frame, fn, M, E, E_new, it, Esol, x, y, theta,
                 at, poly, ht, pos1, th1, pos2, th2, th3, history>>

\* The last result is taken.
CallsDone ==
  /\ pc = "h6"
  /\ th3' = theta
  /\ pc' = "h_done"
  /\ UNCHANGED <<scripts, params, artists, frame, solver, at, poly,
                 ht, pos1, th1, pos2, th2, pos3, history>>

Next ==
  \/ CallPosition
  \/ CallTrueAnomaly
  \/ CallPositionNextPeriod
  \/ CallTrueAnomalyNextPeriod
  \/ CallPositionAgain
  \/ CallTrueAnomalyAgain
  \/ CallsDone
  \/ get_position_at_time
  \/ get_true_anomaly_at_time
  \/ NewtonConverge
  \/ NewtonContinue
  \/ NewtonExhaust
  \/ get_position_return
  \/ get_true_anomaly_return

Spec == Init /\ [][Next]_vars

\* ------------------------------------------------------ the animation run

\* e = 0.7, a = 4.0, T = 8.0
OrbitE == (7 * Scale) \div 10

OrbitA == 4 * Scale

OrbitT == 8 * Scale

\* n_frames = int(T * fps) + 1
n_frames == ((T * fps) \div Scale) + 1

\* Faulty variant of linspace: the step taken over num - 2 intervals and the
\* last value not pinned to stop.
linspaceOvershoot(start, stop, num, i) ==
  start + DivInt(i * (stop - start), num - 2)

\* np.linspace(start, stop, num)[i]: the i-th of num evenly spaced values,
\* the last one stop itself.
linspace(start, stop, num, i) ==
  IF i = num - 1 THEN stop
  ELSE start + DivInt(i * (stop - start), num - 1)

\* Faulty variant of t_array: the frame times in reverse order.
t_arrayReversed(i) == linspace(0, T, n_frames, n_frames - 1 - i)

\* t_array = np.linspace(0, T, n_frames)
t_array(i) == linspace(0, T, n_frames, i)

sector_colors ==
  <<"#FF6B6B", "#4ECDC4", "#45B7D1", "#96CEB4",
    "#FFEAA7", "#DDA0DD", "#98D8C8", "#F7DC6F">>

\* current_second = int(t)
current_second == at \div Scale

\* time_in_second = t - current_second
time_in_second == at - current_second * Scale

\* The module is loaded with the script's parameters; the first statement
\* that calls the solver is x0, y0 = get_position_at_time(0).
InitAnim ==
  /\ e = OrbitE
  /\ a = OrbitA
  /\ T = OrbitT
  /\ b = SemiMinor(OrbitA, OrbitE)
  /\ c = FocalDistance(OrbitA, OrbitE)
  /\ ht = 0
  /\ pc = "m_load"
  /\ InitRest
  /\ ScriptsIdle

\* x0, y0 = get_position_at_time(0)
module_load ==
  /\ pc = "m_load"
  /\ t' = 0
  /\ ret' = "m_earth"
  /\ pc' = "gp_entry"
  /\ UNCHANGED <<scripts, params, artists, frame, fn, M, E, E_new, it, Esol, x, y, theta,
                 at, poly, results, history>>

\* earth = Circle((x0, y0), ...); FuncAnimation then asks for frame 0.
earth_init ==
  /\ pc = "m_earth"
  /\ earth' = <<x, y>>
  /\ frame' = 0
  /\ pc' = "idle"
  /\ UNCHANGED <<scripts, params, current_sector, current_start_time, sector_patches,
                 solver, at, poly, results, history>>

\* animate(frame): t = t_array[frame]; x, y = get_position_at_time(t)
animate ==
  /\ pc = "idle"
  /\ frame < n_frames
  /\ at' = t_array(frame)
  /\ t' = t_array(frame)
  /\ ret' = "a_earth"
  /\ pc' = "gp_entry"
  /\ UNCHANGED <<scripts, params, artists, frame, fn, M, E, E_new, it, Esol, x, y, theta,
                 poly, results, history>>

\* earth.center = (x, y)
animate_earth ==
  /\ pc = "a_earth"
  /\ earth' = <<x, y>>
  /\ pc' = "a_second"
  /\ UNCHANGED <<scripts, params, current_sector, current_start_time, sector_patches,
                 frame, solver, at, poly, results, history>>

\* if current_second > int(current_start_time) or (frame == 0):
NewSecond == current_second > current_start_time \/ frame = 0

\* A new second at a later frame: the sector of the second that ended is
\* built, completed_sector = create_sector_polygon(prev_second, current_second).
animate_complete ==
  /\ pc = "a_second"
  /\ NewSecond
  /\ frame > 0 /\ current_second > 0
  /\ poly' = [t_start |-> (current_second - 1) * Scale,
              t_end |-> current_second * Scale,
              k |-> 0, points |-> << <<0, 0>> >>, ret |-> "a_completed"]
  /\ pc' = "sp_loop"
  /\ UNCHANGED <<scripts, params, artists, frame, solver, at, results, history>>

\* The completed sector is styled and kept; current_start_time = current_second.
animate_completed ==
  /\ pc = "a_completed"
  /\ sector_patches' =
       Append(sector_patches,
              [points |-> poly.points,
               facecolor |-> sector_colors[((current_second - 1) % Len(sector_colors)) + 1],
               alpha |-> (5 * Scale) \div 10, zorder |-> 2])
  /\ current_start_time' = current_second
  /\ pc' = "a_grow"
  /\ UNCHANGED <<scripts, params, earth, current_sector, frame, solver, at, poly,
                 results, history>>

\* A new second with no sector to complete (frame 0): current_start_time = current_second.
animate_start_second ==
  /\ pc = "a_second"
  /\ NewSecond
  /\ ~(frame > 0 /\ current_second > 0)
  /\ current_start_time' = current_second
  /\ pc' = "a_grow"
  /\ UNCHANGED <<scripts, params, earth, current_sector, sector_patches, frame, solver,
                 at, poly, results, history>>

\* The same second as the frame before.
animate_same_second ==
  /\ pc = "a_second"
  /\ ~NewSecond
  /\ pc' = "a_grow"
  /\ UNCHANGED <<scripts, params, artists, frame, solver, at, poly, results, history>>

\* if current_sector is not None: current_sector.remove() takes the old polygon
\* off the axes (the variable keeps it until it is assigned below);
\* if time_in_second > 0.01: current_sector = create_sector_polygon(current_second, t)
animate_grow ==
  /\ pc = "a_grow"
  /\ time_in_second > Scale \div 100
  /\ poly' = [t_start |-> current_second * Scale, t_end |-> at,
              k |-> 0, points |-> << <<0, 0>> >>, ret |-> "a_current"]
  /\ pc' = "sp_loop"
  /\ UNCHANGED <<scripts, params, artists, frame, solver, at, results, history>>

\* The growing sector is styled and becomes current_sector.
animate_current ==
  /\ pc = "a_current"
  /\ current_sector' =
       [points |-> poly.points,
        facecolor |-> sector_colors[(current_second % Len(sector_colors)) + 1],
        alpha |-> (7 * Scale) \div 10, zorder |-> 3]
  /\ pc' = "a_return"
  /\ UNCHANGED <<scripts, params, earth, current_start_time, sector_patches, frame,
                 solver, at, poly, results, history>>

\* else: current_sector = None
animate_no_sector ==
  /\ pc = "a_grow"
  /\ ~(time_in_second > Scale \div 100)
  /\ current_sector' = None
  /\ pc' = "a_return"
  /\ UNCHANGED <<scripts, params, earth, current_start_time, sector_patches, frame,
                 solver, at, poly, results, history>>

\* return [earth] + sector_patches + ...; the next frame follows.
animate_return ==
  /\ pc = "a_return"
  /\ frame' = frame + 1
  /\ pc' = "idle"
  /\ UNCHANGED <<scripts, params, artists, solver, at, poly, results, history>>

\* create_sector_polygon: for t in times: x, y = get_position_at_time(t)
sector_sample ==
  /\ pc = "sp_loop"
  /\ poly.k < n_points
  /\ t' = linspace(poly.t_start, poly.t_end, n_points, poly.k)
  /\ ret' = "sp_point"
  /\ pc' = "gp_entry"
  /\ UNCHANGED <<scripts, params, artists, frame, fn, M, E, E_new, it, Esol, x, y, theta,
                 at, poly, results, history>>

\* points.append((x, y))
sector_point ==
  /\ pc = "sp_point"
  /\ poly' = [poly EXCEPT !.points = Append(@, <<x, y>>), !.k = @ + 1]
  /\ pc' = "sp_loop"
  /\ UNCHANGED <<scripts, params, artists, frame, solver, at, results, history>>

\* points.append((0, 0)); return Polygon(points, closed=True)
sector_close ==
  /\ pc = "sp_loop"
  /\ poly.k >= n_points
  /\ poly' = [poly EXCEPT !.points = Append(@, <<0, 0>>)]
  /\ pc' = poly.ret
  /\ UNCHANGED <<scripts, params, artists, frame, solver, at, results, history>>

NextAnim ==
  \/ module_load
  \/ earth_init
  \/ animate
  \/ animate_earth
  \/ animate_complete
  \/ animate_completed
  \/ animate_start_second
  \/ animate_same_second
  \/ animate_grow
  \/ animate_current
  \/ animate_no_sector
  \/ animate_return
  \/ sector_sample
  \/ sector_point
  \/ sector_close
  \/ get_position_at_time
  \/ NewtonConverge
  \/ NewtonContinue
  \/ NewtonExhaust
  \/ get_position_return

SpecAnim == InitAnim /\ [][NextAnim]_vars

\* ------------------------------------------ the mechanics scripts' runs

\* The orbit script loaded and not running.
KeplerLoaded ==
  /\ e = OrbitE
  /\ a = OrbitA
  /\ T = OrbitT
  /\ b = SemiMinor(OrbitA, OrbitE)
  /\ c = FocalDistance(OrbitA, OrbitE)
  /\ ht = 0
  /\ InitRest

InitMomentum ==
  /\ KeplerLoaded
  /\ ScriptsIdle
  /\ pc = "mc_init"

\* FuncAnimation(fig, animate, init_func=init, frames=n_frames), saved once.
SpecMomentum == InitMomentum /\ [][NextMomentum]_vars

InitEnergy ==
  /\ KeplerLoaded
  /\ ScriptsIdle
  /\ pc = "fe_load"

\* FuncAnimation(fig, animate, init_func=init, frames=n_frames), saved once.
SpecEnergy == InitEnergy /\ [][NextEnergy]_vars

InitFourHeights ==
  /\ KeplerLoaded
  /\ ScriptsIdle
  /\ pc = "fh_load"

\* FuncAnimation(fig, animate, init_func=init, frames=n_frames), saved once.
SpecFourHeights == InitFourHeights /\ [][NextFourHeights]_vars

InitTimeSymmetry ==
  /\ KeplerLoaded
  /\ ScriptsIdle
  /\ pc = "ts_load"

\* FuncAnimation(fig, animate, init_func=init, frames=n_frames), saved once.
SpecTimeSymmetry == InitTimeSymmetry /\ [][NextTimeSymmetry]_vars

InitTwoHeights ==
  /\ KeplerLoaded
  /\ ScriptsIdle
  /\ pc = "th_load"

\* FuncAnimation(fig, animate, init_func=init, frames=n_frames), saved once.
SpecTwoHeights == InitTwoHeights /\ [][NextTwoHeights]_vars

InitFourHorizontal ==
  /\ KeplerLoaded
  /\ ScriptsIdle
  /\ pc = "f4_load"

\* FuncAnimation(fig, animate, init_func=init, frames=n_frames), saved once.
SpecFourHorizontal == InitFourHorizontal /\ [][NextFourHorizontal]_vars


InitEquipotential ==
  /\ KeplerLoaded
  /\ ScriptsIdle
  /\ pc = "eq_init"

\* FuncAnimation(fig, animate, init_func=init, frames=n_frames), saved once.
SpecEquipotential == InitEquipotential /\ [][NextEquipotential]_vars


InitGravityPotential ==
  /\ KeplerLoaded
  /\ ScriptsIdle
  /\ pc = "gp_init"

\* FuncAnimation(fig, animate, init_func=init, frames=n_frames), saved once.
SpecGravityPotential == InitGravityPotential /\ [][NextGravityPotential]_vars

\* ------------------------------------------------------------- properties

\* |d| < 1e-8
Below1em8(d) == Abs(d) * (10^8 \div Scale) < 1

\* The solver has returned, or is in its loop.
InSolver == pc \in {"newton", "solved"}

\* C1: whatever M and e, the solver computes at most 100 Newton updates and
\* then returns: its loop counter never passes 100, and at 100 the only step
\* it can take is the return.
C1_IterationCap ==
  InSolver =>
    /\ it <= 100
    /\ Len(iterates) - 1 <= 100
    /\ (pc = "newton" /\ it = 100 => ENABLED NewtonExhaust /\ ~ENABLED NewtonContinue)

\* C1's case: a call that used all 100 iterations and returned.
C1_Witness == pc = "solved" /\ ~converged /\ Len(iterates) - 1 = 100

\* C2: when none of the 100 updates meets the test, the value returned is the
\* last one computed, the 100th E_new.
C2_ExhaustReturnsLast ==
  (pc = "solved" /\ ~converged) =>
    /\ Len(iterates) = 101
    /\ Esol = iterates[101]
    /\ Esol = E_new
    /\ \A n \in 1 .. 100 : ~Below1em8(iterates[n + 1] - iterates[n])

\* C2's case: the cap was reached on an eccentricity of the script's range.
C2_Witness == pc = "solved" /\ ~converged /\ e = OrbitE /\ Len(iterates) = 101

\* C3: E_0 = M, E_{n+1} = E_n - (E_n - e sin E_n - M) / (1 - e cos E_n), and
\* the value returned is E_{n+1} for the first n with |E_{n+1} - E_n| < 1e-8,
\* or the 100th update when there is none.
C3_NewtonIteration ==
  pc = "solved" =>
    LET n == Len(iterates) - 1
    IN  /\ n >= 1 /\ n <= 100
        /\ iterates[1] = M
        /\ \A k \in 1 .. n :
             iterates[k + 1] =
               iterates[k] - Div(iterates[k] - Mul(e, Sin(iterates[k])) - M,
                                 Scale - Mul(e, Cos(iterates[k])))
        /\ \A k \in 1 .. n - 1 : ~Below1em8(iterates[k + 1] - iterates[k])
        /\ Below1em8(iterates[n + 1] - iterates[n]) \/ n = 100
        /\ Esol = iterates[n + 1]

\* C3's case: a call that converged after several updates.
C3_Witness == pc = "solved" /\ converged /\ Len(iterates) >= 5 /\ e = OrbitE

\* C4 (as claimed): for any t the returned E satisfies Kepler's equation
\* M = E - e sin E within the solver's tolerance.
C4_KeplerWithinTol ==
  pc = "solved" => Below1em8(Esol - Mul(e, Sin(Esol)) - M)

\* The position returned by get_position_at_time is in x, y.
PositionReturned == fn = "pos" /\ pc \in {"h1", "h3", "h5"}

\* ((x + c) / a)^2 + (y / b)^2 - 1
EllipseDefect ==
  Mul(Div(x + c, a), Div(x + c, a)) + Mul(Div(y, b), Div(y, b)) - Scale

\* C5: for e in [0, 0.95] and t in [0, T) the position returned lies on the
\* ellipse ((x + c) / a)^2 + (y / b)^2 = 1 within 1e-6.
C5_OnEllipse ==
  (PositionReturned /\ e <= (95 * Scale) \div 100 /\ 0 <= t /\ t < T) =>
    Abs(EllipseDefect) <= Scale \div 10^6

\* C5's case: a position off both axes on the most eccentric orbit of the range.
C5_Witness ==
  /\ PositionReturned /\ e = (95 * Scale) \div 100 /\ 0 < t /\ t < T
  /\ y # 0 /\ x + c # 0

\* C6: at t = 0 the solver returns E = 0 from its first iteration and the
\* position is (a (1 - e), 0), which is (1.2, 0) for e = 0.7, a = 4.
C6_PositionAtZero ==
  (pc = "h1" /\ ht = 0) =>
    /\ Esol = 0 /\ converged /\ Len(iterates) = 2
    /\ x = Mul(a, Scale - e) /\ y = 0
    /\ (e = OrbitE /\ a = OrbitA => x = (12 * Scale) \div 10)

\* C6's case: the script's own orbit evaluated at t = 0.
C6_Witness ==
  pc = "h1" /\ ht = 0 /\ e = OrbitE /\ a = OrbitA /\ T = OrbitT

\* C7 (as claimed): the functions return the same x, y and theta for t and t + T.
C7_Periodic ==
  pc = "h_done" => pos2 = pos1 /\ th2 = th1

FirstOfFrame(i) ==
  calls[i][1] >= 0 /\ (i = 1 \/ calls[i - 1][1] # calls[i][1])

\* C9 (as claimed): one solver call per frame, with times that never decrease.
C9_OncePerFrameMonotonic ==
  /\ \A i \in DOMAIN calls : calls[i][1] >= 0 => FirstOfFrame(i)
  /\ \A i \in DOMAIN calls : i > 1 => calls[i - 1][2] <= calls[i][2]

\* C9: every rendered frame calls the solver, first with t_array[frame], and
\* these first times increase strictly from frame to frame.
C9_FrameTimesIncrease ==
  /\ \A i \in DOMAIN calls :
       FirstOfFrame(i) =>
         /\ calls[i][2] = DivInt(calls[i][1] * T, n_frames - 1)
         /\ \A j \in 1 .. i - 1 : FirstOfFrame(j) => calls[j][2] < calls[i][2]
  /\ \A f \in 0 .. frame - 1 : \E i \in DOMAIN calls : calls[i][1] = f

\* C9's case: several frames rendered, one of them with sector samples.
C9_Witness ==
  /\ frame >= 3
  /\ \E i \in DOMAIN calls : calls[i][1] >= 0 /\ ~FirstOfFrame(i)

\* C10: no step of the three functions changes a module-level variable, and
\* a call repeated with the same t, after other calls, returns the same result.
C10_NoSideEffects ==
  [][/\ (pc \in {"gp_entry", "gt_entry", "newton", "solved"} =>
           UNCHANGED <<e, a, b, c, T, current_sector, current_start_time,
                       sector_patches>>)
     /\ (pc' = "h_done" => pos3' = pos1' /\ th3' = th1')]_vars

\* C10's case: all six calls made on the script's orbit, away from t = 0.
C10_Witness ==
  pc = "h_done" /\ e = OrbitE /\ a = OrbitA /\ T = OrbitT /\ ht > 0

\* The time of the sample before ht.
PrevSample == ht - DivInt(T, TimeSteps)

\* C11: for e in [0, 0.95) and sample times in [0, T), the true anomaly
\* returned by get_true_anomaly_at_time, taken mod 2 pi, is larger at the
\* later of two neighbouring times; the value returned through the solver's
\* steps is the value of the function evaluated in one piece.
C11_TrueAnomalyIncreases ==
  (pc = "h2" /\ e < (95 * Scale) \div 100 /\ ht < T) =>
    /\ theta = TrueAnomalyAt(ht)
    /\ (PrevSample >= 0 =>
          (TrueAnomalyAt(PrevSample) % TwoPi) < (theta % TwoPi))

\* C11's case: the script's eccentricity in the second half of the period,
\* where arctan2 has passed pi / 2, with an earlier sample to compare with.
C11_Witness ==
  /\ pc = "h2" /\ e = OrbitE /\ ht < T /\ PrevSample > 0
  /\ theta > PiFix

\* |(x, y)| / a, the distance from the focus in units of a.
RadiusOverA == Sqrt(Mul(Div(x, a), Div(x, a)) + Mul(Div(y, a), Div(y, a)))

\* C12: with e = 0, whatever a, T and t, the solver returns E = M from its
\* first pass and the distance of (x, y) from the focus is a within 1e-6.
C12_CircularOrbit ==
  (PositionReturned /\ e = 0) =>
    /\ converged /\ Len(iterates) = 2 /\ Esol = M
    /\ Abs(Mul(a, RadiusOverA) - a) <= Scale \div 10^6

\* C12's case: a circular orbit evaluated off both axes, in the second period.
C12_Witness ==
  PositionReturned /\ e = 0 /\ t > T /\ x # 0 /\ y # 0 /\ a = OrbitA

\* C13: at every frame time, before, at and after t_collision, the velocities
\* get_positions_and_velocities returns satisfy
\* m v_A + m v_B = p_total = m v_A_initial + m v_B_initial, and the two
\* momentum bars drawn from them, laid end to end, reach the Total line.
C13_MomentumConserved ==
  /\ pc = "mc_update" =>
       /\ FMul(mc_m, v_A) + FMul(mc_m, v_B) = p_total
       /\ p_total = FMul(mc_m, v_A_initial) + FMul(mc_m, v_B_initial)
  /\ (pc = "mc_idle" /\ frame > 0) =>
       /\ momentum_bar_B.x = momentum_bar_A.x + momentum_bar_A.width
       /\ momentum_bar_B.x + momentum_bar_B.width = bar_center_x + p_total_width

\* C13's case: a frame after the collision is drawn, the momentum now in B's bar.
C13_Witness ==
  /\ pc = "mc_idle" /\ mc_t > t_collision
  /\ momentum_bar_B.width > 0 /\ momentum_bar_A.width = 0

\* C18: for t < t_collision (v_A, v_B) = (v_A_initial, v_B_initial), for
\* t >= t_collision (v_A, v_B) = (v_B_initial, v_A_initial), and at
\* t = t_collision both bodies are at x_collision.
C18_VelocitiesExchanged ==
  pc = "mc_update" =>
    /\ mc_t < t_collision => v_A = v_A_initial /\ v_B = v_B_initial
    /\ mc_t >= t_collision => v_A = v_B_initial /\ v_B = v_A_initial
    /\ mc_t = t_collision => x_A = x_collision /\ x_B = x_collision

\* C18's case: the frame whose time is t_collision, after frames before it.
C18_Witness ==
  pc = "mc_update" /\ mc_t = t_collision /\ frame > 0 /\ v_B = v_A_initial

\* The tolerance energies are compared with: 1e-4, against energies near 100.
EnergyTol == Unit \div 10^4

\* A frame of the energy animation has been drawn.
fe_drawn == pc = "fe_idle" /\ frame > 0

\* C14: at every frame U + K = E_total = m g h0 (within 1e-4), the potential
\* bar's height plus the kinetic bar's height is bar_max_height (within 1e-4)
\* and the kinetic bar starts exactly at the top of the potential bar; also
\* in frames where h is clamped to 0.
C14_EnergyConserved ==
  fe_drawn =>
    /\ E_total = FMul(FMul(fe_m, fe_g), fe_h0)
    /\ Abs(U + K - E_total) <= EnergyTol
    /\ Abs(potential_bar.height + kinetic_bar.height - bar_max_height) <= EnergyTol
    /\ kinetic_bar.y = potential_bar.y + potential_bar.height
    /\ fe_h >= 0

\* C14's case: the last frame, where h came out below 0 and was clamped.
C14_Witness ==
  /\ fe_drawn /\ frame = fe_n_frames
  /\ fe_h = 0 /\ fe_h0 - FMul(FMul(Half, fe_g), FMul(fe_t, fe_t)) < 0
  /\ U = 0 /\ K > 0

\* Ball i is in the air below its initial height.
fh_falling(i) == 0 < fh_particles[i][2] /\ fh_particles[i][2] < heights[i]

\* Ball i is on the ground.
fh_landed(i) == fh_particles[i][2] = 0

\* C15: ball i+1 starts delay = 0.2 s after ball i reaches the ground
\* (start_times[i+1] = start_times[i] + fall_times[i] + delay); in every frame
\* at most one ball is in motion, a ball that has left its height has every
\* ball to its left on the ground, and ball i+1 is still at its height at every
\* frame time up to delay after ball i's landing.
C15_OneAfterAnother ==
  pc = "fh_idle" =>
    /\ \A i \in 1 .. n_balls - 1 :
         /\ start_times(i + 1) = start_times(i) + fall_times[i] + (2 * Unit) \div 10
         /\ fh_particles[i + 1][2] < heights[i + 1] => fh_landed(i)
         /\ fh_t <= start_times(i) + fall_times[i] + (2 * Unit) \div 10 =>
              fh_particles[i + 1][2] = heights[i + 1]
    /\ \A i, j \in 1 .. n_balls : fh_falling(i) /\ fh_falling(j) => i = j
    /\ \A i \in 1 .. n_balls : fh_particles[i][1] = ball_x_positions[i]

\* C15's case: the third ball in the air, the two to its left landed, the
\* fourth still waiting.
C15_Witness ==
  /\ pc = "fh_idle" /\ frame > 0
  /\ fh_landed(1) /\ fh_landed(2) /\ fh_falling(3)
  /\ fh_particles[4][2] = heights[4]

\* A frame of the time-symmetry animation has been drawn.
ts_drawn == pc = "ts_idle" /\ frame > 0

\* C16: ball 2 is ball 1 shifted by t_ball2_start.  At a frame time
\* t = t_ball2_start + tau, tau >= 0, ball 2's height and curve are those the
\* code gives ball 1 at time tau, and while the ball is falling (tau <= t_fall)
\* so is its marker; at a frame time t = tau, ball 1's height and curve are
\* those the code gives ball 2 at t_ball2_start + tau; every value plotted is
\* calc_lagrangian of its tau, whichever the ball.
C16_TimeTranslated ==
  ts_drawn =>
    /\ ts_t >= t_ball2_start =>
         /\ particle2.center[2] = h1(ts_t - t_ball2_start)
         /\ line2 = L1_history(ts_t - t_ball2_start)
         /\ ts_t - t_ball2_start <= ts_t_fall => point2 = L1_point(ts_t - t_ball2_start)
    /\ particle1.center[2] = h2(t_ball2_start + ts_t)
    /\ line1 = L2_history(t_ball2_start + ts_t)
    /\ \A k \in DOMAIN line1 : line1[k][2] = calc_lagrangian(line1[k][1])
    /\ \A k \in DOMAIN line2 : line2[k][2] = calc_lagrangian(line2[k][1])

\* C16's case: ball 2 in mid-fall with part of its curve drawn, ball 1 landed
\* with its whole curve drawn.
C16_Witness ==
  /\ ts_drawn /\ ts_t > t_ball2_start
  /\ 0 < particle2.center[2] /\ particle2.center[2] < ts_h0
  /\ Len(line2) > 10 /\ Len(line1) > Len(line2)
  /\ particle1.center[2] = 0

\* A frame of the two-heights animation has been drawn.
th_drawn == pc = "th_idle" /\ frame > 0

\* C17: at every frame U_left + K_left = E_left and U_right + K_right = E_right
\* (within 1e-4), also after the left ball has landed while the right one is
\* still falling; each kinetic bar sits on its potential bar and the two
\* together have the height of the ball's energy; E_right > E_left.
C17_EachBallConserves ==
  th_drawn =>
    /\ Abs(U_left + K_left - E_left) <= EnergyTol
    /\ Abs(U_right + K_right - E_right) <= EnergyTol
    /\ E_right > E_left
    /\ kinetic_bar_left.y = potential_bar_left.y + potential_bar_left.height
    /\ kinetic_bar_right.y = potential_bar_right.y + potential_bar_right.height
    /\ Abs(potential_bar_left.height + kinetic_bar_left.height
           - FMul(E_left, bar_scale)) <= EnergyTol
    /\ Abs(potential_bar_right.height + kinetic_bar_right.height
           - FMul(E_right, bar_scale)) <= EnergyTol

\* C17's case: the left ball has landed (t > t_fall_left), the right one is
\* still in the air.
C17_Witness ==
  /\ th_drawn /\ th_t > t_fall_left
  /\ h_left = 0 /\ U_left = 0 /\ K_left > 0
  /\ h_right > 0 /\ U_right > 0

\* C19: after init and after every frame the four balls have one and the same
\* height, between 0 and h0, and each ball has its own x of x_positions; the
\* height is h0 at the first frame and the ground (within 1e-4) at the last.
C19_SameHeightOwnX ==
  pc = "f4_idle" =>
    /\ \A i, j \in DOMAIN f4_particles : f4_particles[i][2] = f4_particles[j][2]
    /\ \A i \in DOMAIN f4_particles :
         /\ f4_particles[i][1] = x_positions[i]
         /\ 0 <= f4_particles[i][2] /\ f4_particles[i][2] <= f4_h0
         /\ frame <= 1 => f4_particles[i][2] = f4_h0
         /\ frame = f4_n_frames => f4_particles[i][2] <= Unit \div 10^4
    /\ \A i, j \in DOMAIN f4_particles :
         i # j => f4_particles[i][1] # f4_particles[j][1]

\* C19's case: the last frame, where h came out below 0 and the four balls
\* were put on the ground.
C19_Witness ==
  /\ pc = "f4_idle" /\ frame = f4_n_frames
  /\ f4_h0 - FMul(FMul(Half, f4_g), FMul(f4_t, f4_t)) < 0
  /\ \A i \in DOMAIN f4_particles : f4_particles[i][2] = 0

\* C20: from init() to the last frame the ball's centre has y = middle_height,
\* the height of the second line (10): while it waits, while it moves and
\* once it has arrived; only its x changes, from ball_start_x to ball_end_x,
\* which it has reached when the last frame is drawn.
C20_BallOnMiddleLine ==
  /\ ball.center[2] = middle_height
  /\ eq_potential_lines[2][2] = <<>> \/ ball.center[2] = eq_potential_lines[2][2][1]
  /\ ball_start_x <= ball.center[1] /\ ball.center[1] <= ball_end_x
  /\ (pc = "eq_idle" /\ frame <= ball_start_frame) => ball.center[1] = ball_start_x
  /\ (pc = "eq_idle" /\ frame = eq_n_frames) => ball.center[1] = ball_end_x

\* The ball is under way: shown, strictly between its two ends, on the line.
C20_Witness ==
  /\ pc = "eq_idle"
  /\ ball.alpha = Unit
  /\ ball_start_x + Unit < ball.center[1] /\ ball.center[1] < ball_end_x - Unit
  /\ ball.center[2] = middle_height

\* Line i is drawn over its whole width.
LineComplete(i) == gp_potential_lines[i][1] = <<Unit \div 2, (115 * Unit) \div 10>>

\* Line i has begun to grow: it has left x = 0.5.
LineGrowing(i) ==
  /\ gp_potential_lines[i][1] # <<>>
  /\ gp_potential_lines[i][1][2] > Unit \div 2

\* The length of arrow i.
ArrowLength(i) == gradient_arrows[i].posA[2] - gradient_arrows[i].posB[2]

\* C21: the lines and the arrows are drawn in order. The next line starts no
\* earlier than the frame at which the line before it is complete, so a line
\* that has begun to grow has every earlier line complete; the arrows start
\* later than the last line's end frame, so an arrow of positive length has
\* every line complete; and the arrows have their full length 6.5 from frame
\* arrow_start_frame + arrow_duration on, which is before the last frame.
C21_DrawnInOrder ==
  /\ \A i \in 1..(n_lines - 1) :
       /\ line_start_frames[i + 1] >= line_start_frames[i] + frames_per_line
       /\ LineGrowing(i + 1) => LineComplete(i)
  /\ arrow_start_frame > line_start_frames[n_lines] + frames_per_line
  /\ \A k \in 1..n_arrows :
       /\ ArrowLength(k) >= 0
       /\ ArrowLength(k) > 0 => \A i \in 1..n_lines : LineComplete(i)
       /\ (pc = "gp_idle" /\ frame <= arrow_start_frame) => ArrowLength(k) = 0
       /\ (pc = "gp_idle" /\ frame > arrow_start_frame + arrow_duration)
            => ArrowLength(k) = (65 * Unit) \div 10
  /\ arrow_start_frame + arrow_duration < gp_n_frames - 1

\* The arrows are growing: longer than zero, shorter than 6.5, all lines drawn.
C21_Witness ==
  /\ pc = "gp_idle"
  /\ \A k \in 1..n_arrows :
       ArrowLength(k) > Unit /\ ArrowLength(k) < (65 * Unit) \div 10
  /\ \A i \in 1..n_lines : LineComplete(i)

\* C22: the eccentricity is in [0, 1), and at every iterate E of a solver call,
\* the starting value M included, the divisor 1 - e * cos(E) of the Newton
\* step is at least 1 - e, which is above zero: the step never divides by zero.
C22_DenominatorPositive ==
  /\ 0 <= e /\ e < Scale
  /\ Scale - e > 0
  /\ InSolver =>
       /\ \A k \in 1 .. Len(iterates) : Denominator(iterates[k], e) >= Scale - e
       /\ Denominator(E, e) >= Scale - e

\* A call with the largest eccentricity has made a Newton step at an E where
\* cos(E) = 1: the divisor was exactly 1 - e = 0.01, its least value.
C22_Witness ==
  /\ pc = "solved"
  /\ e = (99 * Scale) \div 100
  /\ Len(iterates) >= 2
  /\ \E k \in 1 .. Len(iterates) - 1 :
       /\ Denominator(iterates[k], e) = Scale - e
       /\ iterates[k + 1] = NewtonUpdate(iterates[k], M, e)

====
